---------------------------- MODULE Spec2Model ----------------------------
(***************************************************************************)
(* cc-safe: the classification engine of lib/checker.js.                   *)
(*                                                                         *)
(* A JavaScript string is a sequence of one-character strings, so that     *)
(* toLowerCase, includes, startsWith and the regular expressions act on    *)
(* the characters as the code's do.  A regular expression literal of the   *)
(* source is written as its syntax tree and run by Ends, which gives the   *)
(* positions where a match starting at a position may end.                 *)
(***************************************************************************)
EXTENDS Integers, Sequences, FiniteSets, TLC

VARIABLES
    op,          \* the exported function called last: "none" before any call
    argType,     \* typeof of the argument of that call
    input,       \* the argument's characters (empty unless a string)
    outcome,     \* "none", "returned" or "threw"
    issues,      \* the array checkPermission returned
    inside,      \* what isInsideContainer returned in that call
    lastIndex,   \* lastIndex of each RegExp object held by DANGEROUS_PATTERNS
    used,        \* whether an earlier call has been made on these objects
    pc,          \* where main is: "start", "loop" or "exited"
    noLow,       \* main's noLow: the run was given --no-low
    numFiles,    \* files.length: how many settings files were found
    fileIndex,   \* the file the loop of main is at, counted from 1
    content,     \* what the file analysed last held
    raw,         \* what analyzeSettingsFile returned for it
    allFindings, \* main's allFindings
    out,         \* what main has printed
    exitStatus   \* the exit status of the process, -1 while it runs

checkerVars == <<op, argType, input, outcome, issues, inside, lastIndex, used>>

cliVars == <<pc, noLow, numFiles, fileIndex, content, raw, allFindings, out,
             exitStatus>>

vars == <<checkerVars, cliVars>>

-----------------------------------------------------------------------------
(* Characters *)

Uppers == <<"A", "B", "C", "D", "E", "F", "G", "H", "I", "J", "K", "L", "M", "N", "O", "P", "Q", "R", "S", "T", "U", "V", "W", "X", "Y", "Z">>
Lowers == <<"a", "b", "c", "d", "e", "f", "g", "h", "i", "j", "k", "l", "m", "n", "o", "p", "q", "r", "s", "t", "u", "v", "w", "x", "y", "z">>
Digits == {"0", "1", "2", "3", "4", "5", "6", "7", "8", "9"}

Range(f) == {f[k] : k \in DOMAIN f}

\* [a-zA-Z]
Letter == Range(Uppers) \cup Range(Lowers)
\* \w, the characters between which \b finds no boundary
WordChar == Letter \cup Digits \cup {"_"}
\* \s
Space == {" ", "\t", "\n", "\r"}

\* String.prototype.toLowerCase, one character
LowerChar(c) ==
    IF \E k \in DOMAIN Uppers : Uppers[k] = c
    THEN Lowers[CHOOSE k \in DOMAIN Uppers : Uppers[k] = c]
    ELSE c

toLowerCase(s) == [k \in 1..Len(s) |-> LowerChar(s[k])]

\* s has the characters of lit from position i on
HasAt(s, i, lit) ==
    /\ i >= 1
    /\ i + Len(lit) - 1 <= Len(s)
    /\ \A k \in 1..Len(lit) : s[i + k - 1] = lit[k]

\* String.prototype.includes
includes(s, sub) == \E i \in 1..(Len(s) + 1) : HasAt(s, i, sub)

\* String.prototype.startsWith
startsWith(s, pre) == HasAt(s, 1, pre)

-----------------------------------------------------------------------------
(* Regular expressions: the syntax tree of a literal *)

Lit(s)  == [t |-> "lit", s |-> s]                \* the characters of s
Cls(c)  == [t |-> "cls", c |-> c, neg |-> FALSE] \* [...] and \s
NCls(c) == [t |-> "cls", c |-> c, neg |-> TRUE]  \* [^...] and \S
Dot     == [t |-> "dot"]                         \* .
Cat(r)  == [t |-> "cat", r |-> r]                \* r[1] r[2] ...
Alt(r)  == [t |-> "alt", r |-> r]                \* r[1] | r[2] | ...
Star(r) == [t |-> "star", r |-> r]               \* r*
Plus(r) == [t |-> "plus", r |-> r]               \* r+
\* no test of a word boundary
WB_absent == [t |-> "lit", s |-> <<>>]
WB      == [t |-> "wb"]                          \* \b
BOL     == [t |-> "bol"]                         \* ^
\* no test of the end of the string
EOL_absent == [t |-> "lit", s |-> <<>>]
EOL     == [t |-> "eol"]                         \* $
NLA(r)  == [t |-> "nla", r |-> r]                \* (?!r)
\* no look behind the match
NLB_absent(l) == [t |-> "lit", s |-> <<>>]
NLB(l)  == [t |-> "nlb", lits |-> l]             \* (?<!l1|l2|...)

IsWordAt(s, i) == i >= 1 /\ i <= Len(s) /\ s[i] \in WordChar

RECURSIVE Ends(_, _, _)
RECURSIVE CatEnds(_, _, _, _)
RECURSIVE StarEnds(_, _, _, _)

\* The positions j such that re matches s[i] .. s[j-1].
Ends(re, s, i) ==
    CASE re.t = "lit"  -> IF HasAt(s, i, re.s) THEN {i + Len(re.s)} ELSE {}
      [] re.t = "wb"   -> IF IsWordAt(s, i - 1) # IsWordAt(s, i) THEN {i} ELSE {}
      [] re.t = "cat"  -> CatEnds(re.r, 1, s, {i})
      [] re.t = "cls"  -> IF i <= Len(s) /\ ((s[i] \in re.c) # re.neg)
                          THEN {i + 1} ELSE {}
      [] re.t = "star" -> StarEnds(re.r, s, {i}, {i})
      [] re.t = "plus" -> LET first == Ends(re.r, s, i)
                          IN  StarEnds(re.r, s, first, first)
      [] re.t = "alt"  -> UNION {Ends(re.r[k], s, i) : k \in DOMAIN re.r}
      [] re.t = "dot"  -> IF i <= Len(s) /\ s[i] \notin {"\n", "\r"}
                          THEN {i + 1} ELSE {}
      [] re.t = "bol"  -> IF i = 1 THEN {i} ELSE {}
      [] re.t = "eol"  -> IF i = Len(s) + 1 THEN {i} ELSE {}
      [] re.t = "nla"  -> IF Ends(re.r, s, i) = {} THEN {i} ELSE {}
      [] re.t = "nlb"  -> IF \E l \in re.lits : HasAt(s, i - Len(l), l)
                          THEN {} ELSE {i}

\* r[k] r[k+1] ... from any position of from
CatEnds(r, k, s, from) ==
    IF k > Len(r) \/ from = {} THEN from
    ELSE CatEnds(r, k + 1, s, UNION {Ends(r[k], s, j) : j \in from})

\* zero or more r from any position of frontier; seen is what was reached
StarEnds(r, s, frontier, seen) ==
    LET more == UNION {Ends(r, s, j) : j \in frontier} \ seen
    IN  IF more = {} THEN seen ELSE StarEnds(r, s, more, seen \cup more)

RECURSIVE First(_)
RECURSIVE CatFirst(_, _)

\* How a match of re may begin: empty tells whether re matches without
\* taking a character, any whether its first character may be any, chars
\* the characters it may be otherwise.
First(re) ==
    CASE re.t = "lit"  -> IF re.s = <<>>
                          THEN [empty |-> TRUE, any |-> FALSE, chars |-> {}]
                          ELSE [empty |-> FALSE, any |-> FALSE, chars |-> {re.s[1]}]
      [] re.t = "cls"  -> [empty |-> FALSE, any |-> re.neg,
                           chars |-> IF re.neg THEN {} ELSE re.c]
      [] re.t = "dot"  -> [empty |-> FALSE, any |-> TRUE, chars |-> {}]
      [] re.t = "cat"  -> CatFirst(re.r, 1)
      [] re.t = "alt"  -> [empty |-> \E k \in DOMAIN re.r : First(re.r[k]).empty,
                           any   |-> \E k \in DOMAIN re.r : First(re.r[k]).any,
                           chars |-> UNION {First(re.r[k]).chars : k \in DOMAIN re.r}]
      [] re.t = "star" -> [First(re.r) EXCEPT !.empty = TRUE]
      [] re.t = "plus" -> First(re.r)
      [] OTHER         -> [empty |-> TRUE, any |-> FALSE, chars |-> {}]

CatFirst(r, k) ==
    IF k > Len(r) THEN [empty |-> TRUE, any |-> FALSE, chars |-> {}]
    ELSE LET f == First(r[k])
         IN  IF ~f.empty THEN f
             ELSE LET g == CatFirst(r, k + 1)
                  IN  [empty |-> g.empty, any |-> f.any \/ g.any,
                       chars |-> f.chars \cup g.chars]

\* The positions from which a match with such a beginning can start: the
\* search of a match tries no other.
Starts(first, s, from) ==
    {i \in from..(Len(s) + 1) :
        \/ first.empty
        \/ i <= Len(s) /\ (first.any \/ s[i] \in first.chars)}

\* The first position at or after from where re matches, or 0.
FirstStart(rx, s, from) ==
    LET starts == {i \in Starts(rx.first, s, from) : Ends(rx.source, s, i) # {}}
    IN  IF starts = {} THEN 0
        ELSE CHOOSE i \in starts : \A j \in starts : i <= j

Max(S) == CHOOSE x \in S : \A y \in S : y <= x

-----------------------------------------------------------------------------
(* RegExp objects and the two methods the code calls on them *)

\* a regular expression literal with the g flag
RegExp_g(tree) == [source |-> tree, global |-> TRUE, first |-> First(tree)]

\* a regular expression literal without flags
RegExp(tree) == [source |-> tree, global |-> FALSE, first |-> First(tree)]

\* RegExp.prototype.test: li is the object's lastIndex (0-based) before the
\* call.  Without the g flag the search starts at the first character and
\* lastIndex is left alone.
RegExpTest(rx, s, li) ==
    IF rx.global
    THEN LET st == FirstStart(rx, s, li + 1)
         IN  IF st = 0
             THEN [matched |-> FALSE, lastIndex |-> 0]
             ELSE [matched |-> TRUE,
                   lastIndex |-> Max(Ends(rx.source, s, st)) - 1]
    ELSE [matched |-> \E i \in Starts(rx.first, s, 1) :
                          Ends(rx.source, s, i) # {},
          lastIndex |-> li]

\* RegExp.prototype.test on a literal evaluated for this one call
test(tree, s) == RegExpTest(RegExp(tree), s, 0).matched

null == [null |-> TRUE]

\* String.prototype.match with the pattern head(group): null, or the text
\* of the group in the leftmost match.  The quantifiers are greedy, so of
\* the ends of head from which group matches the last is taken, and the
\* group runs as far as it can.
match(s, head, group) ==
    LET st == FirstStart(RegExp(Cat(<<head, group>>)), s, 1)
    IN  IF st = 0 THEN null
        ELSE LET e == Max({j \in Ends(head, s, st) : Ends(group, s, j) # {}})
             IN  [index |-> st, g1 |-> SubSeq(s, e, Max(Ends(group, s, e)) - 1)]

\* what a call gives: a value, or an exception
Return(v) == [threw |-> FALSE, value |-> v]
Throw     == [threw |-> TRUE, value |-> null]

\* JavaScript values: a string, or a value of another type (no characters kept)
Str(chars)   == [type |-> "string", chars |-> chars]
NonString(t) == [type |-> t, chars |-> <<>>]

-----------------------------------------------------------------------------
(* Container detector *)

CONTAINER_PREFIXES == <<
    <<"d", "o", "c", "k", "e", "r", " ", "e", "x", "e", "c">>,
    <<"p", "o", "d", "m", "a", "n", " ", "e", "x", "e", "c">>,
    <<"n", "e", "r", "d", "c", "t", "l", " ", "e", "x", "e", "c">>,
    <<"k", "u", "b", "e", "c", "t", "l", " ", "e", "x", "e", "c">>,
    <<"d", "o", "c", "k", "e", "r", " ", "r", "u", "n">>,
    <<"p", "o", "d", "m", "a", "n", " ", "r", "u", "n">>,
    <<"o", "r", "b", " ", "r", "u", "n">>,
    <<"o", "r", "b", " ", "-", "m">> >>

\* the prefixes compared without lower-casing the command
isInsideContainer_caseSensitive(command) ==
    IF command.type # "string" THEN Throw
    ELSE Return(\E k \in DOMAIN CONTAINER_PREFIXES :
                    includes(command.chars, CONTAINER_PREFIXES[k]))

\* command.toLowerCase is no function unless command is a string: TypeError
isInsideContainer(command) ==
    IF command.type # "string" THEN Throw
    ELSE LET lowerCmd == toLowerCase(command.chars)
         IN  Return(\E k \in DOMAIN CONTAINER_PREFIXES :
                        includes(lowerCmd, CONTAINER_PREFIXES[k]))

-----------------------------------------------------------------------------
(* The rule table *)

Sp == Cls(Space)
AZ == Cls(Letter)

Rule(name, tree, severity, description, skip) ==
    [name |-> name, pattern |-> RegExp(tree), severity |-> severity,
     description |-> description, skipContainerCheck |-> skip]

\* rm before the end of the string or a closing parenthesis only
rmBroad_noWildcard ==
    Cat(<<WB, Lit(<<"r", "m">>), Alt(<<Cat(<<Star(Sp), EOL>>), Lit(<<")">>)>>)>>)

\* /\brm(\s*\*|\s*$|\))/
rmBroad ==
    Cat(<<WB, Lit(<<"r", "m">>),
          Alt(<<Cat(<<Star(Sp), Lit(<<"*">>)>>),
                Cat(<<Star(Sp), EOL>>),
                Lit(<<")">>)>>)>>)

DANGEROUS_PATTERNS == <<
    \* /(?<!docker |podman )\brm\s+(-[a-zA-Z]*f|-f[a-zA-Z]*|--force)/
    Rule("rm -rf",
         Cat(<<NLB({<<"d", "o", "c", "k", "e", "r", " ">>, <<"p", "o", "d", "m", "a", "n", " ">>}), WB, Lit(<<"r", "m">>),
               Plus(Sp),
               Alt(<<Cat(<<Lit(<<"-">>), Star(AZ), Lit(<<"f">>)>>),
                     Cat(<<Lit(<<"-", "f">>), Star(AZ)>>),
                     Lit(<<"-", "-", "f", "o", "r", "c", "e">>)>>)>>),
         "HIGH", "Force-deletes files without confirmation", FALSE),
    \* /^Bash$/
    Rule("Bash (allow all)",
         Cat(<<BOL, Lit(<<"B", "a", "s", "h">>), EOL>>),
         "HIGH", "Allows ANY bash command without approval", FALSE),
    \* /\bchmod\s+777\b/
    Rule("chmod 777",
         Cat(<<WB, Lit(<<"c", "h", "m", "o", "d">>), Plus(Sp), Lit(<<"7", "7", "7">>), WB>>),
         "HIGH", "Makes files readable/writable/executable by everyone", FALSE),
    \* /\bchmod\s+-[a-zA-Z]*R/
    Rule("chmod -R",
         Cat(<<WB, Lit(<<"c", "h", "m", "o", "d">>), Plus(Sp), Lit(<<"-">>), Star(AZ), Lit(<<"R">>)>>),
         "HIGH", "Recursively changes permissions on entire directory trees", FALSE),
    \* /\b(curl|wget)\b.*\|\s*(sh|bash)\b/
    Rule("curl | sh",
         Cat(<<WB, Alt(<<Lit(<<"c", "u", "r", "l">>), Lit(<<"w", "g", "e", "t">>)>>), WB, Star(Dot),
               Lit(<<"|">>), Star(Sp), Alt(<<Lit(<<"s", "h">>), Lit(<<"b", "a", "s", "h">>)>>), WB>>),
         "HIGH", "Downloads and executes code from the internet without review", FALSE),
    \* /\bdd\s+if=/
    Rule("dd",
         Cat(<<WB, Lit(<<"d", "d">>), Plus(Sp), Lit(<<"i", "f", "=">>)>>),
         "HIGH", "Low-level disk copy, can overwrite entire disks", FALSE),
    \* /\bmkfs\b/
    Rule("mkfs",
         Cat(<<WB, Lit(<<"m", "k", "f", "s">>), WB>>),
         "HIGH", "Creates filesystems, destroys existing data", FALSE),
    \* /\bfdisk\b/
    Rule("fdisk",
         Cat(<<WB, Lit(<<"f", "d", "i", "s", "k">>), WB>>),
         "HIGH", "Modifies disk partition tables", FALSE),
    \* />\s*\/dev\/(sd|hd|nvme|vd)/
    Rule("> /dev/",
         Cat(<<Lit(<<">">>), Star(Sp), Lit(<<"/", "d", "e", "v", "/">>),
               Alt(<<Lit(<<"s", "d">>), Lit(<<"h", "d">>), Lit(<<"n", "v", "m", "e">>), Lit(<<"v", "d">>)>>)>>),
         "HIGH", "Writes directly to raw disk devices", FALSE),
    \* /:\(\)\s*\{\s*:\|:&\s*\}\s*;:/
    Rule("fork bomb",
         Cat(<<Lit(<<":", "(", ")">>), Star(Sp), Lit(<<"{">>), Star(Sp), Lit(<<":", "|", ":", "&">>),
               Star(Sp), Lit(<<"}">>), Star(Sp), Lit(<<";", ":">>)>>),
         "HIGH", "Spawns processes until system crashes", FALSE),
    \* /--dangerously-skip-permissions/
    Rule("--dangerously-skip-permissions",
         Lit(<<"-", "-", "d", "a", "n", "g", "e", "r", "o", "u", "s", "l", "y", "-", "s", "k", "i", "p", "-", "p", "e", "r", "m", "i", "s", "s", "i", "o", "n", "s">>),
         "HIGH", "Bypasses all Claude Code safety checks on host", FALSE),
    \* /\bgit\s+reset\s+--hard\b/
    Rule("git reset --hard",
         Cat(<<WB, Lit(<<"g", "i", "t">>), Plus(Sp), Lit(<<"r", "e", "s", "e", "t">>), Plus(Sp),
               Lit(<<"-", "-", "h", "a", "r", "d">>), WB>>),
         "MEDIUM", "Discards all uncommitted changes permanently", FALSE),
    \* /\bgit\s+clean\s+-[a-zA-Z]*[fd][a-zA-Z]*[fd]/
    Rule("git clean -fd",
         Cat(<<WB, Lit(<<"g", "i", "t">>), Plus(Sp), Lit(<<"c", "l", "e", "a", "n">>), Plus(Sp), Lit(<<"-">>),
               Star(AZ), Cls({"f", "d"}), Star(AZ), Cls({"f", "d"})>>),
         "MEDIUM", "Deletes all untracked files and directories", FALSE),
    \* /\b(npm|yarn)\s+publish\b/
    Rule("npm publish",
         Cat(<<WB, Alt(<<Lit(<<"n", "p", "m">>), Lit(<<"y", "a", "r", "n">>)>>), Plus(Sp),
               Lit(<<"p", "u", "b", "l", "i", "s", "h">>), WB>>),
         "MEDIUM", "Publishes package to public registry", FALSE),
    \* /\btwine\s+upload\b/
    Rule("twine upload",
         Cat(<<WB, Lit(<<"t", "w", "i", "n", "e">>), Plus(Sp), Lit(<<"u", "p", "l", "o", "a", "d">>), WB>>),
         "MEDIUM", "Publishes Python package to PyPI", FALSE),
    \* /\bgem\s+push\b/
    Rule("gem push",
         Cat(<<WB, Lit(<<"g", "e", "m">>), Plus(Sp), Lit(<<"p", "u", "s", "h">>), WB>>),
         "MEDIUM", "Publishes Ruby gem to RubyGems", FALSE),
    \* /\bcargo\s+publish\b/
    Rule("cargo publish",
         Cat(<<WB, Lit(<<"c", "a", "r", "g", "o">>), Plus(Sp), Lit(<<"p", "u", "b", "l", "i", "s", "h">>), WB>>),
         "MEDIUM", "Publishes Rust crate to crates.io", FALSE),
    \* /\bdocker\s+run\b.*--privileged/
    Rule("docker --privileged",
         Cat(<<WB, Lit(<<"d", "o", "c", "k", "e", "r">>), Plus(Sp), Lit(<<"r", "u", "n">>), WB, Star(Dot),
               Lit(<<"-", "-", "p", "r", "i", "v", "i", "l", "e", "g", "e", "d">>)>>),
         "MEDIUM", "Container gets full access to host system", TRUE),
    \* /\bdocker\s+run\b.*-v\s+\/:/
    Rule("docker mount root",
         Cat(<<WB, Lit(<<"d", "o", "c", "k", "e", "r">>), Plus(Sp), Lit(<<"r", "u", "n">>), WB, Star(Dot),
               Lit(<<"-", "v">>), Plus(Sp), Lit(<<"/", ":">>)>>),
         "MEDIUM", "Mounts entire host filesystem into container", TRUE),
    \* /\beval\s+/
    Rule("eval",
         Cat(<<WB, Lit(<<"e", "v", "a", "l">>), Plus(Sp)>>),
         "MEDIUM", "Executes strings as code, potential injection risk", FALSE),
    \* /\brm(\s*\*|\s*$|\))/
    Rule("rm (broad)", rmBroad,
         "LOW", "May allow deletion of any files", FALSE) >>

NumRules == Len(DANGEROUS_PATTERNS)

-----------------------------------------------------------------------------
(* Sudo sub-classifier *)

SAFE_SUDO_COMMANDS == <<
    <<"a", "p", "t", "-", "c", "a", "c", "h", "e">>, <<"d", "u">>, <<"d", "f">>, <<"l", "s">>, <<"c", "a", "t">>, <<"h", "e", "a", "d">>, <<"t", "a", "i", "l">>, <<"l", "e", "s", "s">>,
    <<"m", "o", "r", "e">>, <<"p", "s">>, <<"t", "o", "p">>, <<"h", "t", "o", "p">>, <<"l", "s", "o", "f">>, <<"n", "e", "t", "s", "t", "a", "t">>, <<"s", "s">>, <<"i", "p">>,
    <<"i", "f", "c", "o", "n", "f", "i", "g">>, <<"u", "n", "a", "m", "e">>, <<"w", "h", "o", "a", "m", "i">>, <<"i", "d">>, <<"w", "h", "i", "c", "h">>, <<"w", "h", "e", "r", "e", "i", "s">>, <<"f", "i", "l", "e">>,
    <<"s", "t", "a", "t">>, <<"f", "i", "n", "d">>, <<"l", "o", "c", "a", "t", "e">>, <<"g", "r", "e", "p">>, <<"a", "w", "k">>, <<"s", "e", "d">>, <<"w", "c">>, <<"d", "i", "f", "f">>,
    <<"m", "d", "5", "s", "u", "m">>, <<"s", "h", "a", "2", "5", "6", "s", "u", "m">>, <<"s", "h", "a", "s", "u", "m">>, <<"e", "n", "v">>, <<"p", "r", "i", "n", "t", "e", "n", "v">>, <<"d", "m", "e", "s", "g">>,
    <<"j", "o", "u", "r", "n", "a", "l", "c", "t", "l">>, <<"s", "y", "s", "t", "e", "m", "c", "t", "l", " ", "s", "t", "a", "t", "u", "s">>, <<"f", "r", "e", "e">>, <<"v", "m", "s", "t", "a", "t">>, <<"i", "o", "s", "t", "a", "t">>,
    <<"u", "p", "t", "i", "m", "e">>, <<"h", "o", "s", "t", "n", "a", "m", "e">>, <<"d", "a", "t", "e">>, <<"c", "a", "l">>, <<"l", "s", "b", "l", "k">>, <<"b", "l", "k", "i", "d">>, <<"f", "d", "i", "s", "k", " ", "-", "l">>,
    <<"p", "a", "r", "t", "e", "d", " ", "-", "l">>, <<"m", "o", "u", "n", "t">>, <<"l", "s", "c", "p", "u">>, <<"l", "s", "m", "e", "m">>, <<"l", "s", "p", "c", "i">>, <<"l", "s", "u", "s", "b">>,
    <<"d", "m", "i", "d", "e", "c", "o", "d", "e">> >>

\* a finding that keeps the permission lower-cased
Finding_lowered(name, severity, description, s) ==
    [name |-> name, severity |-> severity, description |-> description,
     permission |-> toLowerCase(s)]

Finding(name, severity, description, s) ==
    [name |-> name, severity |-> severity, description |-> description,
     permission |-> s]

\* sudo as a word at any place: \bsudo\s+
sudoPatternHead_anywhere == Cat(<<WB, Lit(<<"s", "u", "d", "o">>), Plus(Sp)>>)

\* /(?:^|Bash\(|[;&|]\s*|['"]\s*)sudo\s+(\S+)/ up to the group
sudoPatternHead ==
    Cat(<<Alt(<<BOL,
                Lit(<<"B", "a", "s", "h", "(">>),
                Cat(<<Cls({";", "&", "|"}), Star(Sp)>>),
                Cat(<<Cls({"'", "\""}), Star(Sp)>>)>>),
          Lit(<<"s", "u", "d", "o">>), Plus(Sp)>>)

\* (\S+)
sudoPatternGroup == Plus(NCls(Space))

\* the callback without the ':' wildcard suffix
isSafeEntry_noWildcard(safe, permission, sudoCommand) ==
    IF includes(safe, <<" ">>)
    THEN includes(toLowerCase(permission), <<"s", "u", "d", "o", " ">> \o safe)
    ELSE sudoCommand = safe

\* the callback of SAFE_SUDO_COMMANDS.some
isSafeEntry(safe, permission, sudoCommand) ==
    IF includes(safe, <<" ">>)
    THEN includes(toLowerCase(permission), <<"s", "u", "d", "o", " ">> \o safe)
    ELSE sudoCommand = safe \/ startsWith(sudoCommand, safe \o <<":">>)

\* checkSudo without the test of line 218: match[1] of null is a TypeError
checkSudo_noGuard(permission) ==
    LET m == match(permission, sudoPatternHead, sudoPatternGroup)
    IN  IF m = null THEN Throw
        ELSE Return(Finding("sudo", "MEDIUM",
                 "Runs commands as root/administrator", permission))

checkSudo(permission) ==
    LET m == match(permission, sudoPatternHead, sudoPatternGroup)
    IN  IF m = null THEN Return(null)
        ELSE LET sudoCommand == toLowerCase(m.g1)
                 isSafe == \E k \in DOMAIN SAFE_SUDO_COMMANDS :
                     isSafeEntry(SAFE_SUDO_COMMANDS[k], permission, sudoCommand)
             IN  IF isSafe
                 THEN Return(Finding("sudo (read-only)", "LOW",
                          "Runs read-only command as root (info disclosure only)",
                          permission))
                 ELSE Return(Finding("sudo", "MEDIUM",
                          "Runs commands as root/administrator", permission))

-----------------------------------------------------------------------------
(* Git-push sub-classifier *)

\* \bgit\s+push
gitPush == <<WB, Lit(<<"g", "i", "t">>), Plus(Sp), Lit(<<"p", "u", "s", "h">>)>>

\* the flag without the closing \b
forceFlag_noWB ==
    <<Alt(<<Lit(<<"-", "f">>), Lit(<<"-", "-", "f", "o", "r", "c", "e">>)>>), NLA(Lit(<<"-", "w", "i", "t", "h", "-", "l", "e", "a", "s", "e">>))>>

\* (-f|--force)(?!-with-lease)\b
forceFlag ==
    <<Alt(<<Lit(<<"-", "f">>), Lit(<<"-", "-", "f", "o", "r", "c", "e">>)>>), NLA(Lit(<<"-", "w", "i", "t", "h", "-", "l", "e", "a", "s", "e">>)), WB>>

checkGitPush(permission) ==
    \* /\bgit\s+push\b/
    IF ~test(Cat(gitPush \o <<WB>>), permission) THEN null
    \* /\bgit\s+push\b.*\s(-f|--force)(?!-with-lease)\b/
    \* /\bgit\s+push\s+(-f|--force)(?!-with-lease)\b/
    ELSE IF \/ test(Cat(gitPush \o <<WB, Star(Dot), Sp>> \o forceFlag), permission)
            \/ test(Cat(gitPush \o <<Plus(Sp)>> \o forceFlag), permission)
    THEN Finding("git push --force", "HIGH",
                 "Overwrites remote git history, can destroy work", permission)
    \* /\bgit\s+push\b.*--force-with-lease\b/
    ELSE IF test(Cat(gitPush \o <<WB, Star(Dot), Lit(<<"-", "-", "f", "o", "r", "c", "e", "-", "w", "i", "t", "h", "-", "l", "e", "a", "s", "e">>), WB>>),
                 permission)
    THEN Finding("git push --force-with-lease", "MEDIUM",
                 "Safer force push but still rewrites history", permission)
    ELSE Finding("git push", "LOW",
                 "Pushes commits to remote repository", permission)

-----------------------------------------------------------------------------
(* Pattern classifier *)

\* no rule is skipped inside a container
skipRule_never(inContainer, rule) == FALSE

\* every rule is skipped inside a container
skipRule_always(inContainer, rule) == inContainer

\* if (inContainer && !skipContainerCheck) continue
skipRule(inContainer, rule) == inContainer /\ ~rule.skipContainerCheck

RECURSIVE forPatterns(_, _, _, _, _)

\* the for...of loop over DANGEROUS_PATTERNS from rule k on: found is the
\* issues array so far, li the lastIndex of every rule's RegExp object
forPatterns(k, permission, inContainer, found, li) ==
    IF k > NumRules THEN [issues |-> found, lastIndex |-> li]
    ELSE LET rule == DANGEROUS_PATTERNS[k]
         IN  IF skipRule(inContainer, rule)
             THEN forPatterns(k + 1, permission, inContainer, found, li)
             ELSE LET t == RegExpTest(rule.pattern, permission, li[k])
                  IN  forPatterns(k + 1, permission, inContainer,
                          IF t.matched
                          THEN Append(found, Finding(rule.name, rule.severity,
                                          rule.description, permission))
                          ELSE found,
                          [li EXCEPT ![k] = t.lastIndex])

\* the issue put before the others
push_front(arr, x) == IF x = null THEN arr ELSE <<x>> \o arr

push(arr, x) == IF x = null THEN arr ELSE Append(arr, x)

\* checkPermission on a JavaScript value, with the RegExp objects' lastIndex
\* as the call finds it: what the call gives and the lastIndex it leaves
checkPermission(permission, li) ==
    LET ic == isInsideContainer(permission)
    IN  IF ic.threw
        THEN [threw |-> TRUE, value |-> <<>>, lastIndex |-> li,
              inContainer |-> FALSE]
        ELSE
        LET inContainer == ic.value
            loop == forPatterns(1, permission.chars, inContainer, <<>>, li)
        IN  IF inContainer
            THEN [threw |-> FALSE, value |-> loop.issues,
                  lastIndex |-> loop.lastIndex, inContainer |-> TRUE]
            ELSE
            LET withPush == push(loop.issues, checkGitPush(permission.chars))
                sudoIssue == checkSudo(permission.chars)
            IN  IF sudoIssue.threw
                THEN [threw |-> TRUE, value |-> <<>>,
                      lastIndex |-> loop.lastIndex, inContainer |-> FALSE]
                ELSE [threw |-> FALSE,
                      value |-> push(withPush, sudoIssue.value),
                      lastIndex |-> loop.lastIndex, inContainer |-> FALSE]

-----------------------------------------------------------------------------
(* The command line: main of bin/cc-safe.js *)

\* lastIndex of the RegExp objects when the process has loaded the table
FreshIndex == [k \in 1..NumRules |-> 0]

\* what readFile and JSON.parse give for a settings file: the read or the
\* parse fails, or there is a document, of which permissions and its
\* allow, deny and ask are kept
Unreadable == [readable |-> FALSE, parses |-> FALSE, hasPermissions |-> FALSE,
               hasAllow |-> FALSE, allow |-> <<>>, deny |-> <<>>, ask |-> <<>>]

NotJson == [Unreadable EXCEPT !.readable = TRUE]

NoPermissions == [NotJson EXCEPT !.parses = TRUE]

Settings(allow, deny, ask) ==
    [readable |-> TRUE, parses |-> TRUE, hasPermissions |-> TRUE,
     hasAllow |-> TRUE, allow |-> allow, deny |-> deny, ask |-> ask]

\* settings?.permissions?.allow with the deny list read as well
allowListOf_withDeny(file) ==
    IF file.hasPermissions /\ file.hasAllow
    THEN file.allow \o file.deny ELSE file.deny

\* settings?.permissions?.allow || []
allowListOf(file) ==
    IF file.hasPermissions /\ file.hasAllow THEN file.allow ELSE <<>>

RECURSIVE spread(_, _)
\* issues.push(...r) for each r of results from entry k on
spread(results, k) ==
    IF k > Len(results) THEN <<>>
    ELSE results[k].value \o spread(results, k + 1)

\* what the loop over the results of checkPermission gives: the first
\* exception ends it
collect(results) ==
    IF \E k \in DOMAIN results : results[k].threw THEN Throw
    ELSE Return(spread(results, 1))

\* for (const permission of allowList) issues.push(...checkPermission(permission))
forAllowList(allowList) ==
    collect([k \in DOMAIN allowList |-> checkPermission(allowList[k], FreshIndex)])

\* the body of try in analyzeSettingsFile: readFile or JSON.parse throws,
\* or the loop runs over the allow list
tryAnalyze(file) ==
    IF ~file.readable \/ ~file.parses THEN Throw
    ELSE forAllowList(allowListOf(file))

\* catch (err) { return [] }
catch(r) == IF r.threw THEN Return(<<>>) ELSE r

\* analyzeSettingsFile without its try and catch
analyzeSettingsFile_noCatch(file) == tryAnalyze(file)

\* analyzeSettingsFile: whatever is thrown inside try is caught, and the
\* file gives no issue
analyzeSettingsFile(file) == catch(tryAnalyze(file))

\* the filter that keeps everything
filterLow_none(noLowFlag, found) == found

\* if (noLow) issues = issues.filter(i => i.severity !== 'LOW')
filterLow(noLowFlag, found) ==
    IF noLowFlag THEN SelectSeq(found, LAMBDA i : i.severity # "LOW") ELSE found

RECURSIVE reportLines(_, _)
\* the lines printed for the findings, file after file, from entry k on
reportLines(findings, k) ==
    IF k > Len(findings) THEN <<>>
    ELSE [n \in DOMAIN findings[k].issues |->
              [file |-> findings[k].file,
               severity |-> findings[k].issues[n].severity,
               name |-> findings[k].issues[n].name,
               permission |-> findings[k].issues[n].permission]]
             \o reportLines(findings, k + 1)

\* totalHigh, totalMedium, totalLow
total(lines, severity) ==
    Cardinality({n \in DOMAIN lines : lines[n].severity = severity})

\* a run that always ends with status 0
exitStatusOf_zero(findings) == 0 * Len(findings)

\* process.exit(1) after the summary; a return from main otherwise
exitStatusOf(findings) == IF findings = <<>> THEN 0 ELSE 1

NoOutput == [message |-> "none", lines |-> <<>>,
             totals |-> [high |-> 0, medium |-> 0, low |-> 0]]

Output(message) == [NoOutput EXCEPT !.message = message]

-----------------------------------------------------------------------------
(* The permission strings the calls are made with *)

\* the most argument words that follow a command
MaxArgs == 2

RECURSIVE JoinArgs(_)
\* each argument word after one space
JoinArgs(a) == IF a = <<>> THEN <<>> ELSE <<" ">> \o Head(a) \o JoinArgs(Tail(a))

ArgSeqs(words) == UNION {[1..n -> words] : n \in 0..MaxArgs}

\* open pre head arg ... arg close, for every choice a family allows
Family(wraps, pres, heads, words) ==
    {w[1] \o p \o h \o JoinArgs(a) \o w[2] :
        w \in wraps, p \in pres, h \in heads, a \in ArgSeqs(words)}

Wrapped == <<<<"B", "a", "s", "h", "(">>, <<")">>>>
Prefix  == <<<<"B", "a", "s", "h", "(">>, <<":", "*", ")">>>>

\* container and VM launchers, and look-alikes that launch nothing
ContainerInputs ==
    Family({Wrapped}, {<<>>},
           {<<"d", "o", "c", "k", "e", "r", " ", "e", "x", "e", "c">>, <<"p", "o", "d", "m", "a", "n", " ", "e", "x", "e", "c">>, <<"n", "e", "r", "d", "c", "t", "l", " ", "e", "x", "e", "c">>, <<"k", "u", "b", "e", "c", "t", "l", " ", "e", "x", "e", "c">>,
            <<"d", "o", "c", "k", "e", "r", " ", "r", "u", "n">>, <<"p", "o", "d", "m", "a", "n", " ", "r", "u", "n">>, <<"o", "r", "b", " ", "r", "u", "n">>, <<"o", "r", "b", " ", "-", "m">>,
            <<"D", "o", "c", "k", "e", "r", " ", "R", "u", "n">>, <<"d", "o", "c", "k", "e", "r", " ", " ", "r", "u", "n">>, <<"d", "o", "c", "k", "e", "r", " ", "s", "t", "a", "r", "t">>, <<"d", "o", "c", "k", "e", "r", "r", "u", "n">>},
           {<<"-", "-", "p", "r", "i", "v", "i", "l", "e", "g", "e", "d">>, <<"-", "v", " ", "/", ":", "/", "h", "o", "s", "t">>, <<"-", "v", " ", "/", "a", "p", "p", ":", "/", "a", "p", "p">>,
            <<"s", "u", "d", "o", " ", "r", "m", " ", "-", "r", "f", " ", "/", "t", "m", "p">>})

\* sudo with read-only and with state-changing commands
SudoInputs ==
    Family({Wrapped, Prefix}, {<<>>},
           {<<"s", "u", "d", "o", " ", "l", "s">>, <<"s", "u", "d", "o", " ", "d", "u">>, <<"s", "u", "d", "o", " ", "c", "a", "t">>, <<"s", "u", "d", "o", " ", "a", "p", "t", "-", "c", "a", "c", "h", "e">>, <<"s", "u", "d", "o", " ", "L", "S">>,
            <<"s", "u", "d", "o", " ", "a", "p", "t">>, <<"s", "u", "d", "o", " ", "c", "h", "o", "w", "n">>, <<"s", "u", "d", "o", " ", "c", "h", "m", "o", "d">>, <<"s", "u", "d", "o", " ", "s", "y", "s", "t", "e", "m", "c", "t", "l">>,
            <<"s", "u", "d", "o", " ", "f", "d", "i", "s", "k">>, <<"s", "u", "d", "o", " ", "l", "s", "x">>},
           {<<"-", "l">>, <<"s", "t", "a", "t", "u", "s", " ", "n", "g", "i", "n", "x">>, <<"r", "e", "s", "t", "a", "r", "t", " ", "n", "g", "i", "n", "x">>})

\* git push with its force flags, alone or after another host command
GitInputs ==
    Family({Wrapped}, {<<>>, <<"r", "m", " ", "-", "f", " ", "x", " ", "&", "&", " ">>},
           {<<"g", "i", "t", " ", "p", "u", "s", "h">>, <<"g", "i", "t", " ", " ", "p", "u", "s", "h">>, <<"g", "i", "t", " ", "p", "u", "s", "h", "x">>},
           {<<"-", "f">>, <<"-", "-", "f", "o", "r", "c", "e">>, <<"-", "-", "f", "o", "r", "c", "e", "-", "w", "i", "t", "h", "-", "l", "e", "a", "s", "e">>, <<"o", "r", "i", "g", "i", "n", " ", "m", "a", "i", "n">>,
            <<"-", "-", "f", "o", "r", "c", "e", "f", "u", "l">>, <<"\\", "\n">>})

\* commands of the general table, alone and chained
TableInputs ==
    Family({Wrapped}, {<<>>, <<"s", "u", "d", "o", " ">>},
           {<<"n", "p", "m", " ", "i", "n", "s", "t", "a", "l", "l">>, <<"r", "m", " ", "-", "r", "f", " ", "/">>, <<"c", "h", "m", "o", "d", " ", "7", "7", "7", " ", "/", "t", "m", "p">>, <<"c", "u", "r", "l", " ", "x", " ", "|", " ", "s", "h">>,
            <<"m", "k", "f", "s">>, <<"e", "v", "a", "l", " ", "x">>, <<"r", "m">>, <<"g", "i", "t", " ", "r", "e", "s", "e", "t", " ", "-", "-", "h", "a", "r", "d">>, <<"n", "p", "m", " ", "p", "u", "b", "l", "i", "s", "h">>,
            <<"R", "M", " ", "-", "R", "F", " ", "/">>},
           {<<"&", "&", " ", "c", "h", "m", "o", "d", " ", "-", "R", " ", "a", "+", "w", " ", "/">>, <<">", " ", "/", "d", "e", "v", "/", "s", "d", "a">>, <<"&", "&", " ", "g", "i", "t", " ", "p", "u", "s", "h", " ", "-", "f">>})

\* the strings of the tests and of the specification's examples, and
\* strings that are no well-formed permission
Examples == {
    <<>>, <<"B", "a", "s", "h">>, <<"W", "e", "b", "S", "e", "a", "r", "c", "h">>, <<"B", "a", "s", "h", "(", "n", "p", "m", " ", "i", "n", "s", "t", "a", "l", "l", ")">>, <<"B", "a", "s", "h", "(">>, <<")">>,
    <<"(", "(">>, <<"B", "a", "s", "h", "(", "e", "c", "h", "o", " ", "'", "h", "i", ")">>, <<"B", "a", "s", "h", "(", "e", "c", "h", "o", " ", "\"", "h", "i", ")">>, <<"s", "u", "d", "o", " ", "a", "p", "t", " ", "u", "p", "d", "a", "t", "e">>,
    <<"B", "a", "s", "h", "(", "s", "u", "d", "o", " ", "r", "m", " ", "-", "r", "f", " ", "/", "t", "m", "p", ")">>, <<"B", "a", "s", "h", "(", "p", "s", "e", "u", "d", "o", "c", "o", "d", "e", " ", "g", "e", "n", "e", "r", "a", "t", "o", "r", ")">>,
    <<"d", "o", "c", "k", "e", "r", " ", "e", "x", "e", "c", " ", "m", "y", "-", "c", "o", "n", "t", "a", "i", "n", "e", "r", " ", "s", "u", "d", "o", " ", "a", "p", "t", " ", "u", "p", "d", "a", "t", "e">>,
    <<"d", "o", "c", "k", "e", "r", " ", "r", "u", "n", " ", "u", "b", "u", "n", "t", "u", " ", "s", "u", "d", "o", " ", "a", "p", "t", " ", "i", "n", "s", "t", "a", "l", "l", " ", "v", "i", "m">>,
    <<"p", "o", "d", "m", "a", "n", " ", "e", "x", "e", "c", " ", "c", "o", "n", "t", "a", "i", "n", "e", "r", " ", "s", "u", "d", "o", " ", "r", "m", " ", "-", "r", "f", " ", "/", "t", "m", "p">>,
    <<"k", "u", "b", "e", "c", "t", "l", " ", "e", "x", "e", "c", " ", "p", "o", "d", "-", "n", "a", "m", "e", " ", "-", "-", " ", "s", "u", "d", "o", " ", "c", "a", "t", " ", "/", "e", "t", "c", "/", "p", "a", "s", "s", "w", "d">>,
    <<"o", "r", "b", " ", "-", "m", " ", "b", "r", "o", "w", "s", "e", "r", "-", "v", "m", " ", "s", "u", "d", "o", " ", "a", "p", "t", " ", "u", "p", "d", "a", "t", "e">>,
    <<"o", "r", "b", " ", "r", "u", "n", " ", "m", "y", "-", "v", "m", " ", "-", "-", " ", "s", "u", "d", "o", " ", "s", "y", "s", "t", "e", "m", "c", "t", "l", " ", "r", "e", "s", "t", "a", "r", "t", " ", "n", "g", "i", "n", "x">>,
    <<"B", "a", "s", "h", "(", "d", "o", "c", "k", "e", "r", " ", "e", "x", "e", "c", " ", "m", "y", "-", "c", "o", "n", "t", "a", "i", "n", "e", "r", " ", "s", "u", "d", "o", " ", "r", "m", " ", "-", "r", "f", " ", "/", "t", "m", "p", ")">>,
    <<"B", "a", "s", "h", "(", "d", "o", "c", "k", "e", "r", " ", "e", "x", "e", "c", " ", "m", "y", "-", "c", "o", "n", "t", "a", "i", "n", "e", "r", " ", "s", "u", "d", "o", " ", "a", "p", "t", " ", "u", "p", "d", "a", "t", "e", ")">>,
    <<"B", "a", "s", "h", "(", "o", "r", "b", " ", "-", "m", " ", "b", "r", "o", "w", "s", "e", "r", "-", "v", "m", " ", "s", "u", "d", "o", " ", "a", "p", "t", " ", "i", "n", "s", "t", "a", "l", "l", " ", "f", "i", "r", "e", "f", "o", "x", ")">>,
    <<"B", "a", "s", "h", "(", "d", "o", "c", "k", "e", "r", " ", "r", "u", "n", " ", "-", "-", "p", "r", "i", "v", "i", "l", "e", "g", "e", "d", " ", "u", "b", "u", "n", "t", "u", ")">>,
    <<"B", "a", "s", "h", "(", "d", "o", "c", "k", "e", "r", " ", "r", "u", "n", " ", "-", "v", " ", "/", ":", "/", "h", "o", "s", "t", " ", "u", "b", "u", "n", "t", "u", ")">>,
    <<"B", "a", "s", "h", "(", "d", "o", "c", "k", "e", "r", " ", "r", "u", "n", " ", "-", "v", " ", "/", "a", "p", "p", ":", "/", "a", "p", "p", " ", "u", "b", "u", "n", "t", "u", ")">>,
    <<"B", "a", "s", "h", "(", "s", "u", "d", "o", " ", "a", "p", "t", " ", "u", "p", "d", "a", "t", "e", ")">>, <<"B", "a", "s", "h", "(", "s", "u", "d", "o", " ", "d", "u", ":", "*", ")">>, <<"B", "a", "s", "h", "(", "s", "u", "d", "o", " ", "l", "s", ":", "*", ")">>,
    <<"B", "a", "s", "h", "(", "s", "u", "d", "o", " ", "c", "h", "m", "o", "d", " ", "7", "7", "7", " ", "/", "t", "m", "p", ")">>, <<"B", "a", "s", "h", "(", "s", "u", "d", "o", " ", "l", "s", " ", "-", "l", "a", " ", "/", "r", "o", "o", "t", ")">>,
    <<"B", "a", "s", "h", "(", "s", "u", "d", "o", " ", "a", "p", "t", "-", "c", "a", "c", "h", "e", " ", "p", "o", "l", "i", "c", "y", " ", "f", "i", "r", "e", "f", "o", "x", "-", "e", "s", "r", ")">>, <<"B", "a", "s", "h", "(", "s", "u", "d", "o", " ", "d", "f", " ", "-", "h", ")">>,
    <<"B", "a", "s", "h", "(", "s", "u", "d", "o", " ", "p", "s", " ", "a", "u", "x", ")">>, <<"B", "a", "s", "h", "(", "s", "u", "d", "o", " ", "c", "a", "t", " ", "/", "e", "t", "c", "/", "s", "h", "a", "d", "o", "w", ")">>,
    <<"B", "a", "s", "h", "(", "s", "u", "d", "o", " ", "l", "s", "o", "f", " ", "-", "i", " ", ":", "8", "0", ")">>, <<"B", "a", "s", "h", "(", "s", "u", "d", "o", " ", "j", "o", "u", "r", "n", "a", "l", "c", "t", "l", " ", "-", "u", " ", "n", "g", "i", "n", "x", ")">>,
    <<"B", "a", "s", "h", "(", "s", "u", "d", "o", " ", "s", "y", "s", "t", "e", "m", "c", "t", "l", " ", "s", "t", "a", "t", "u", "s", " ", "n", "g", "i", "n", "x", ")">>, <<"B", "a", "s", "h", "(", "s", "u", "d", "o", " ", "a", "p", "t", " ", "i", "n", "s", "t", "a", "l", "l", " ", "v", "i", "m", ")">>,
    <<"B", "a", "s", "h", "(", "s", "u", "d", "o", " ", "s", "y", "s", "t", "e", "m", "c", "t", "l", " ", "r", "e", "s", "t", "a", "r", "t", " ", "n", "g", "i", "n", "x", ")">>,
    <<"B", "a", "s", "h", "(", "s", "u", "d", "o", " ", "c", "h", "o", "w", "n", " ", "r", "o", "o", "t", ":", "r", "o", "o", "t", " ", "/", "e", "t", "c", "/", "p", "a", "s", "s", "w", "d", ")">>,
    <<"B", "a", "s", "h", "(", "g", "i", "t", " ", "p", "u", "s", "h", " ", "-", "-", "f", "o", "r", "c", "e", ")">>, <<"B", "a", "s", "h", "(", "g", "i", "t", " ", "p", "u", "s", "h", " ", "-", "f", ")">>,
    <<"B", "a", "s", "h", "(", "g", "i", "t", " ", "p", "u", "s", "h", " ", "-", "-", "f", "o", "r", "c", "e", "-", "w", "i", "t", "h", "-", "l", "e", "a", "s", "e", ")">>, <<"B", "a", "s", "h", "(", "g", "i", "t", " ", "p", "u", "s", "h", ")">>,
    <<"B", "a", "s", "h", "(", "g", "i", "t", " ", "p", "u", "s", "h", " ", "o", "r", "i", "g", "i", "n", " ", "m", "a", "i", "n", ")">>,
    <<"B", "a", "s", "h", "(", "d", "o", "c", "k", "e", "r", " ", "e", "x", "e", "c", " ", "c", "o", "n", "t", "a", "i", "n", "e", "r", " ", "g", "i", "t", " ", "p", "u", "s", "h", " ", "-", "-", "f", "o", "r", "c", "e", ")">>,
    <<"B", "a", "s", "h", "(", "s", "u", "d", "o", " ", "a", "p", "t", " ", "u", "p", "d", "a", "t", "e", " ", "&", "&", " ", "s", "u", "d", "o", " ", "f", "d", "i", "s", "k", " ", "-", "l", ")">>,
    \* the bare tool name and what is near it
    <<"B", "a", "s", "h", "(", "l", "s", " ", "*", ".", "j", "s", ")">>, <<"B", "a", "s", "h", "(", "*", ")">>, <<" ", "B", "a", "s", "h">>, <<"B", "a", "s", "h", " ">>, <<"b", "a", "s", "h">>, <<"B", "a", "s", "h", "(", ")">>,
    <<"B", "a", "s", "h", "\n">>, <<"x", "B", "a", "s", "h">>, <<"B", "a", "s", "h", " ", "B", "a", "s", "h">>,
    \* rm and its flags
    <<"B", "a", "s", "h", "(", "r", "m", " ", "-", "r", "f", " ", "/", "t", "m", "p", "/", "f", "o", "o", ")">>, <<"B", "a", "s", "h", "(", "r", "m", " ", "-", "r", "f", ":", "*", ")">>, <<"B", "a", "s", "h", "(", "r", "m", " ", "-", "f", " ", "f", "i", "l", "e", ".", "t", "x", "t", ")">>,
    <<"B", "a", "s", "h", "(", "r", "m", " ", "-", "-", "f", "o", "r", "c", "e", " ", "f", "i", "l", "e", ".", "t", "x", "t", ")">>, <<"B", "a", "s", "h", "(", "r", "m", " ", "f", "i", "l", "e", ".", "t", "x", "t", ")">>,
    <<"B", "a", "s", "h", "(", "d", "o", "c", "k", "e", "r", " ", "r", "m", " ", "-", "f", " ", "c", "o", "n", "t", "a", "i", "n", "e", "r", ")">>, <<"B", "a", "s", "h", "(", "p", "o", "d", "m", "a", "n", " ", "r", "m", " ", "-", "f", " ", "c", "o", "n", "t", "a", "i", "n", "e", "r", ")">>,
    <<"B", "a", "s", "h", "(", "r", "m", " ", "-", "r", " ", "-", "f", " ", "/", "t", "m", "p", ")">>, <<"B", "a", "s", "h", "(", "r", "m", " ", "-", "f", "r", " ", "/", "t", "m", "p", ")">>, <<"B", "a", "s", "h", "(", "r", "m", " ", "-", "r", " ", "/", "t", "m", "p", ")">>,
    <<"B", "a", "s", "h", "(", "r", "m", " ", "-", "v", " ", "-", "r", " ", "-", "-", "f", "o", "r", "c", "e", " ", "x", ")">>, <<"B", "a", "s", "h", "(", "r", "m", " ", "-", "i", " ", "x", ")">>,
    <<"B", "a", "s", "h", "(", "d", "o", "c", "k", "e", "r", " ", "e", "x", "e", "c", " ", "c", "o", "n", "t", "a", "i", "n", "e", "r", " ", "r", "m", " ", "-", "r", "f", " ", "/", "t", "m", "p", ")">>,
    \* git clean and its flags
    <<"B", "a", "s", "h", "(", "g", "i", "t", " ", "c", "l", "e", "a", "n", " ", "-", "f", "d", ")">>, <<"B", "a", "s", "h", "(", "g", "i", "t", " ", "c", "l", "e", "a", "n", " ", "-", "d", "f", ")">>, <<"B", "a", "s", "h", "(", "g", "i", "t", " ", "c", "l", "e", "a", "n", " ", "-", "n", ")">>,
    <<"B", "a", "s", "h", "(", "g", "i", "t", " ", "c", "l", "e", "a", "n", " ", "-", "x", "f", "d", ")">>, <<"B", "a", "s", "h", "(", "g", "i", "t", " ", "c", "l", "e", "a", "n", " ", "-", "d", "x", "f", ")">>, <<"B", "a", "s", "h", "(", "g", "i", "t", " ", "c", "l", "e", "a", "n", " ", "-", "f", ")">>,
    <<"B", "a", "s", "h", "(", "g", "i", "t", " ", "c", "l", "e", "a", "n", " ", "-", "d", ")">>, <<"B", "a", "s", "h", "(", "g", "i", "t", " ", "c", "l", "e", "a", "n", " ", "-", "f", "f", ")">>, <<"B", "a", "s", "h", "(", "g", "i", "t", " ", "c", "l", "e", "a", "n", " ", "-", "f", " ", "-", "d", ")">>,
    <<"B", "a", "s", "h", "(", "g", "i", "t", " ", "c", "l", "e", "a", "n", " ", "-", "d", " ", "-", "f", ")">>, <<"B", "a", "s", "h", "(", "g", "i", "t", " ", "c", "l", "e", "a", "n", " ", "-", "x", ")">>, <<"B", "a", "s", "h", "(", "g", "i", "t", " ", "c", "l", "e", "a", "n", ")">>,
    <<"B", "a", "s", "h", "(", "g", "i", "t", " ", "r", "e", "s", "e", "t", " ", "H", "E", "A", "D", "~", "1", ")">>,
    \* host commands beside a container command
    <<"B", "a", "s", "h", "(", "r", "m", " ", "-", "r", "f", " ", "~", " ", "&", "&", " ", "d", "o", "c", "k", "e", "r", " ", "e", "x", "e", "c", " ", "c", " ", "l", "s", ")">>,
    <<"B", "a", "s", "h", "(", "s", "u", "d", "o", " ", "a", "p", "t", " ", "i", "n", "s", "t", "a", "l", "l", " ", "x", ";", " ", "d", "o", "c", "k", "e", "r", " ", "e", "x", "e", "c", " ", "c", " ", "l", "s", ")">>,
    <<"B", "a", "s", "h", "(", "d", "o", "c", "k", "e", "r", " ", "e", "x", "e", "c", " ", "c", " ", "l", "s", ")">>, <<"B", "a", "s", "h", "(", "d", "o", "c", "k", "e", "r", " ", "e", "x", "e", "c", " ", "c", " ", "l", "s", " ", "&", "&", " ", "r", "m", " ", "-", "r", "f", " ", "~", ")">>,
    \* sudo as a command and as a word
    <<"B", "a", "s", "h", "(", "t", "m", "u", "x", " ", "s", "e", "n", "d", "-", "k", "e", "y", "s", " ", "'", "s", "u", "d", "o", " ", "a", "p", "t", " ", "i", "n", "s", "t", "a", "l", "l", " ", "f", "o", "o", "'", " ", "E", "n", "t", "e", "r", ")">>,
    <<"B", "a", "s", "h", "(", "e", "c", "h", "o", " ", "t", "e", "s", "t", " ", "&", "&", " ", "s", "u", "d", "o", " ", "r", "m", " ", "-", "r", "f", " ", "/", ")">>,
    <<"B", "a", "s", "h", "(", "e", "c", "h", "o", " ", "p", "a", "s", "s", "w", "o", "r", "d", " ", "|", " ", "s", "u", "d", "o", " ", "-", "S", " ", "c", "o", "m", "m", "a", "n", "d", ")">>,
    <<"B", "a", "s", "h", "(", "e", "c", "h", "o", " ", "\"", "T", "h", "i", "s", " ", "f", "e", "a", "t", "u", "r", "e", " ", "r", "e", "l", "a", "t", "e", "s", " ", "t", "o", " ", "s", "u", "d", "o", " ", "u", "s", "a", "g", "e", "\"", ")">>,
    <<"B", "a", "s", "h", "(", "g", "i", "t", " ", "c", "o", "m", "m", "i", "t", " ", "-", "m", " ", "\"", "$", "(", "c", "a", "t", " ", "<", "<", "'", "E", "O", "F", "'", "\n", "A", "d", "d", " ", "d", "e", "t", "e", "c", "t", "i", "o", "n", " ", "(", "s", "t", "a", "r", "t", "i", "n", "g", " ", "w", "i", "t", "h", " ", "s", "u", "d", "o", ")", "\n", "E", "O", "F", "\n", ")", "\"", ")">>,
    <<"B", "a", "s", "h", "(", "s", "u", "d", "o", ")">>, <<"B", "a", "s", "h", "(", "s", "u", "d", "o", " ", ")">>, <<"s", "u", "d", "o">>, <<"s", "u", "d", "o", " ", "l", "s">>, <<"B", "a", "s", "h", "(", "e", "c", "h", "o", " ", "'", "s", "u", "d", "o", " ", "l", "s", "'", ")">>,
    <<"B", "a", "s", "h", "(", "e", "c", "h", "o", " ", "x", ";", " ", "s", "u", "d", "o", " ", "l", "s", ")">>, <<"B", "a", "s", "h", "(", "e", "c", "h", "o", " ", "x", " ", "&", " ", " ", "s", "u", "d", "o", " ", "r", "e", "b", "o", "o", "t", ")">>,
    <<"B", "a", "s", "h", "(", "e", "c", "h", "o", " ", "\"", " ", " ", "s", "u", "d", "o", " ", "l", "s", "\"", ")">>, <<"B", "a", "s", "h", "(", "x", "s", "u", "d", "o", " ", "l", "s", ")">>, <<"B", "a", "s", "h", "(", "e", "c", "h", "o", " ", "s", "u", "d", "o", " ", "l", "s", ")">>,
    <<"B", "a", "s", "h", "(", "s", "u", "d", "o", "e", "d", "i", "t", " ", "x", ")">>, <<"B", "a", "s", "h", "(", "e", "c", "h", "o", " ", "(", "s", "u", "d", "o", " ", "l", "s", ")", ")">>,
    \* sudo in the text of a message
    <<"B", "a", "s", "h", "(", "e", "c", "h", "o", " ", "\"", "s", "u", "d", "o", " ", "i", "s", " ", "r", "e", "q", "u", "i", "r", "e", "d", "\"", ")">>, <<"B", "a", "s", "h", "(", "e", "c", "h", "o", " ", "'", "u", "s", "e", " ", "s", "u", "d", "o", " ", "h", "e", "r", "e", "'", ")">>,
    <<"B", "a", "s", "h", "(", "g", "i", "t", " ", "c", "o", "m", "m", "i", "t", " ", "-", "m", " ", "\"", "s", "u", "d", "o", " ", "s", "u", "p", "p", "o", "r", "t", " ", "a", "d", "d", "e", "d", "\"", ")">>,
    <<"B", "a", "s", "h", "(", "g", "i", "t", " ", "c", "o", "m", "m", "i", "t", " ", "-", "m", " ", "\"", "A", "d", "d", " ", "s", "u", "d", "o", " ", "d", "e", "t", "e", "c", "t", "i", "o", "n", "\"", ")">>,
    <<"B", "a", "s", "h", "(", "g", "i", "t", " ", "c", "o", "m", "m", "i", "t", " ", "-", "m", " ", "\"", "$", "(", "c", "a", "t", " ", "<", "<", "'", "E", "O", "F", "'", "\n", "s", "u", "d", "o", " ", "d", "e", "t", "e", "c", "t", "i", "o", "n", " ", "a", "d", "d", "e", "d", "\n", "E", "O", "F", "\n", ")", "\"", ")">>,
    <<"B", "a", "s", "h", "(", "e", "c", "h", "o", " ", "\"", "$", "(", "s", "u", "d", "o", " ", "l", "s", ")", "\"", ")">>,
    \* a read-only command as the last word
    <<"B", "a", "s", "h", "(", "t", "m", "u", "x", " ", "s", "e", "n", "d", "-", "k", "e", "y", "s", " ", "'", "s", "u", "d", "o", " ", "l", "s", "'", " ", "E", "n", "t", "e", "r", ")">>,
    <<"B", "a", "s", "h", "(", "t", "m", "u", "x", " ", "s", "e", "n", "d", "-", "k", "e", "y", "s", " ", "'", "s", "u", "d", "o", " ", "d", "f", " ", "-", "h", "'", " ", "E", "n", "t", "e", "r", ")">>,
    <<"B", "a", "s", "h", "(", "s", "u", "d", "o", " ", "w", "h", "o", "a", "m", "i", ")">>, <<"B", "a", "s", "h", "(", "s", "u", "d", "o", " ", "l", "s", ";", " ", "s", "u", "d", "o", " ", "r", "e", "b", "o", "o", "t", " ", "n", "o", "w", ")">>,
    <<"B", "a", "s", "h", "(", "s", "u", "d", "o", " ", "l", "s", " ", "-", "l", "a", ";", " ", "s", "u", "d", "o", " ", "r", "e", "b", "o", "o", "t", " ", "n", "o", "w", ")">>, <<"B", "a", "s", "h", "(", "s", "u", "d", "o", " ", "r", "e", "b", "o", "o", "t", " ", "n", "o", "w", ";", " ", "s", "u", "d", "o", " ", "l", "s", " ", "-", "l", "a", ")">>,
    <<"B", "a", "s", "h", "(", "s", "u", "d", "o", " ", "l", "s", " ", "-", "l", "a", " ", "&", "&", " ", "s", "u", "d", "o", " ", "c", "a", "t", " ", "/", "e", "t", "c", "/", "p", "a", "s", "s", "w", "d", ")">>,
    \* the read-only entries of several words
    <<"B", "a", "s", "h", "(", "s", "u", "d", "o", " ", "s", "y", "s", "t", "e", "m", "c", "t", "l", " ", "s", "t", "a", "t", "u", "s", ")">>, <<"B", "a", "s", "h", "(", "s", "u", "d", "o", " ", "f", "d", "i", "s", "k", " ", "-", "l", " ", "/", "d", "e", "v", "/", "s", "d", "a", ")">>,
    <<"B", "a", "s", "h", "(", "s", "u", "d", "o", " ", "p", "a", "r", "t", "e", "d", " ", "-", "l", ")">>, <<"B", "a", "s", "h", "(", "s", "u", "d", "o", " ", "p", "a", "r", "t", "e", "d", " ", "-", "l", " ", "/", "d", "e", "v", "/", "s", "d", "a", ")">>,
    <<"B", "a", "s", "h", "(", "s", "u", "d", "o", " ", "p", "a", "r", "t", "e", "d", " ", "/", "d", "e", "v", "/", "s", "d", "a", " ", "r", "m", " ", "1", ")">>,
    \* removing a container, alone and beside a host rm
    <<"B", "a", "s", "h", "(", "d", "o", "c", "k", "e", "r", " ", "r", "m", " ", "-", "f", " ", "c", ")">>, <<"B", "a", "s", "h", "(", "p", "o", "d", "m", "a", "n", " ", "r", "m", " ", "-", "f", " ", "m", "y", "-", "a", "p", "p", ")">>,
    <<"B", "a", "s", "h", "(", "d", "o", "c", "k", "e", "r", " ", "r", "m", " ", "-", "f", " ", "w", "e", "b", "_", "1", ")">>, <<"B", "a", "s", "h", "(", "d", "o", "c", "k", "e", "r", " ", "r", "m", " ", "c", ")">>,
    <<"B", "a", "s", "h", "(", "d", "o", "c", "k", "e", "r", " ", "r", "m", " ", "-", "f", " ", "c", " ", "&", "&", " ", "r", "m", " ", "-", "r", "f", " ", "/", "d", "a", "t", "a", ")">>,
    <<"B", "a", "s", "h", "(", "p", "o", "d", "m", "a", "n", " ", "r", "m", " ", "-", "f", " ", "c", ";", " ", "r", "m", " ", "-", "f", " ", "x", ")">>,
    <<"B", "a", "s", "h", "(", "d", "o", "c", "k", "e", "r", " ", "r", "m", " ", "-", "f", " ", "c", " ", "&", "&", " ", "r", "m", " ", "-", "-", "f", "o", "r", "c", "e", " ", "/", "d", "a", "t", "a", ")">>,
    <<"B", "a", "s", "h", "(", "d", "o", "c", "k", "e", "r", " ", "r", "m", " ", "-", "f", " ", "c", " ", "&", "&", " ", "r", "m", " ", "/", "d", "a", "t", "a", ")">>,
    <<"B", "a", "s", "h", "(", "r", "m", " ", "-", "r", "f", " ", "/", "d", "a", "t", "a", " ", "&", "&", " ", "d", "o", "c", "k", "e", "r", " ", "r", "m", " ", "-", "f", " ", "c", ")">>,
    <<"B", "a", "s", "h", "(", "p", "o", "d", "m", "a", "n", " ", "r", "m", " ", "-", "f", " ", "c", " ", "&", "&", " ", "p", "o", "d", "m", "a", "n", " ", "r", "m", " ", "-", "f", " ", "d", ")">>,
    \* rm with no target, with a wildcard, with a file
    <<"B", "a", "s", "h", "(", "r", "m", " ", "*", ")">>, <<"B", "a", "s", "h", "(", "r", "m", ":", "*", ")">>, <<"B", "a", "s", "h", "(", "r", "m", " ", "*", ".", "l", "o", "g", ")">>, <<"B", "a", "s", "h", "(", "r", "m", " ", " ", "*", ")">>,
    <<"B", "a", "s", "h", "(", "r", "m", " ", ")">>, <<"r", "m">>, <<"r", "m", " ">>, <<"B", "a", "s", "h", "(", "r", "m", " ", "/", "t", "m", "p", "/", "x", ")">>, <<"B", "a", "s", "h", "(", "r", "m", " ", "a", ".", "t", "x", "t", " ", "b", ".", "t", "x", "t", ")">>,
    <<"B", "a", "s", "h", "(", "d", "o", "c", "k", "e", "r", " ", "e", "x", "e", "c", " ", "a", "p", "p", " ", "r", "m", ")">>, <<"B", "a", "s", "h", "(", "d", "o", "c", "k", "e", "r", " ", "e", "x", "e", "c", " ", "a", "p", "p", " ", "r", "m", " ", "*", ")">>,
    <<"B", "a", "s", "h", "(", "r", "m", "d", "i", "r", " ", "x", ")">>, <<"B", "a", "s", "h", "(", "n", "p", "m", " ", "r", "m", ")">>, <<"B", "a", "s", "h", "(", "r", "m", " ", "-", "r", "f", " ", "*", ")">>, <<"B", "a", "s", "h", "(", "r", "m", " ", "-", "i", ":", "*", ")">>,
    <<"B", "a", "s", "h", "(", "r", "m", " ", "f", "i", "l", "e", ".", "t", "x", "t", ":", "*", ")">>, <<"B", "a", "s", "h", "(", "l", "s", ":", "*", ")">>,
    \* keywords inside longer words
    <<"B", "a", "s", "h", "(", "c", "o", "n", "f", "i", "r", "m", " ", "-", "f", " ", "x", ")">>, <<"B", "a", "s", "h", "(", "c", "o", "n", "f", "i", "r", "m", ")">>, <<"B", "a", "s", "h", "(", "s", "f", "d", "i", "s", "k", " ", "-", "l", ")">>,
    <<"B", "a", "s", "h", "(", "p", "n", "p", "m", " ", "p", "u", "b", "l", "i", "s", "h", ")">>, <<"B", "a", "s", "h", "(", "g", "i", "t", "x", " ", "p", "u", "s", "h", " ", "-", "-", "f", "o", "r", "c", "e", ")">>, <<"B", "a", "s", "h", "(", "d", "i", "g", "i", "t", " ", "p", "u", "s", "h", ")">>,
    <<"B", "a", "s", "h", "(", "a", "d", "d", " ", "i", "f", "=", "x", ")">>, <<"B", "a", "s", "h", "(", "m", "e", "d", "i", "e", "v", "a", "l", " ", "x", ")">>, <<"B", "a", "s", "h", "(", "e", "v", "a", "l", "u", "a", "t", "e", " ", "x", ")">>,
    <<"B", "a", "s", "h", "(", "x", "c", "h", "m", "o", "d", " ", "7", "7", "7", " ", "/", "t", "m", "p", ")">>, <<"B", "a", "s", "h", "(", "c", "h", "m", "o", "d", "x", " ", "-", "R", " ", "x", ")">>, <<"B", "a", "s", "h", "(", "m", "k", "f", "s", "x", ")">>,
    <<"B", "a", "s", "h", "(", "x", "m", "k", "f", "s", ")">>, <<"B", "a", "s", "h", "(", "c", "u", "r", "l", "y", " ", "x", " ", "|", " ", "s", "h", ")">>, <<"B", "a", "s", "h", "(", "x", "w", "g", "e", "t", " ", "u", " ", "|", " ", "b", "a", "s", "h", ")">>,
    <<"B", "a", "s", "h", "(", "y", "a", "r", "n", "x", " ", "p", "u", "b", "l", "i", "s", "h", ")">>, <<"B", "a", "s", "h", "(", "x", "t", "w", "i", "n", "e", " ", "u", "p", "l", "o", "a", "d", ")">>, <<"B", "a", "s", "h", "(", "g", "e", "m", "s", " ", "p", "u", "s", "h", ")">>,
    <<"B", "a", "s", "h", "(", "x", "c", "a", "r", "g", "o", " ", "p", "u", "b", "l", "i", "s", "h", ")">>, <<"B", "a", "s", "h", "(", "f", "a", "r", "m", " ", "-", "r", "f", " ", "x", ")">>, <<"B", "a", "s", "h", "(", "f", "a", "r", "m", " ", "*", ")">>,
    <<"B", "a", "s", "h", "(", "2", "r", "m", " ", "-", "r", "f", " ", "x", ")">>, <<"B", "a", "s", "h", "(", "e", "c", "h", "o", " ", "x", ";", "x", "s", "u", "d", "o", " ", "l", "s", ")">>, <<"B", "a", "s", "h", "(", "d", "i", "g", "i", "t", " ", "c", "l", "e", "a", "n", " ", "-", "f", "d", ")">>,
    <<"B", "a", "s", "h", "(", "l", "e", "g", "i", "t", " ", "r", "e", "s", "e", "t", " ", "-", "-", "h", "a", "r", "d", ")">>, <<"B", "a", "s", "h", "(", "c", "o", "n", "f", "i", "r", "m", " ", "-", "f", " ", "x", " ", "&", "&", " ", "r", "m", " ", "-", "r", "f", " ", "y", ")">> }

Strings ==
    ContainerInputs \cup SudoInputs \cup GitInputs \cup TableInputs
        \cup Examples

\* values of permissions.allow that are no strings
NonStrings == {NonString("number"), NonString("object"), NonString("boolean")}

Inputs == {Str(s) : s \in Strings} \cup NonStrings

-----------------------------------------------------------------------------
(* The calls *)

Init ==
    /\ op = "none"
    /\ argType = "undefined"
    /\ input = <<>>
    /\ outcome = "none"
    /\ issues = <<>>
    /\ inside = FALSE
    /\ lastIndex = [k \in 1..NumRules |-> 0]
    /\ used = FALSE
    /\ pc = "start"
    /\ noLow = FALSE
    /\ numFiles = 0
    /\ fileIndex = 0
    /\ content = Unreadable
    /\ raw = <<>>
    /\ allFindings = <<>>
    /\ out = NoOutput
    /\ exitStatus = -1

\* a caller calls checkPermission(v)
CallCheckPermission ==
    /\ op = "none"
    /\ \E v \in Inputs :
        LET r == checkPermission(v, lastIndex)
        IN  /\ op' = "checkPermission"
            /\ argType' = v.type
            /\ input' = v.chars
            /\ outcome' = IF r.threw THEN "threw" ELSE "returned"
            /\ issues' = r.value
            /\ inside' = r.inContainer
            /\ lastIndex' = r.lastIndex
            /\ UNCHANGED <<used, cliVars>>

\* a caller calls isInsideContainer(v)
CallIsInsideContainer ==
    /\ op = "none"
    /\ \E v \in Inputs :
        LET r == isInsideContainer(v)
        IN  /\ op' = "isInsideContainer"
            /\ argType' = v.type
            /\ input' = v.chars
            /\ outcome' = IF r.threw THEN "threw" ELSE "returned"
            /\ inside' = IF r.threw THEN FALSE ELSE r.value
            /\ issues' = <<>>
            /\ UNCHANGED <<lastIndex, used, cliVars>>

\* the caller has taken what the call gave and may call again
Continue ==
    /\ op # "none"
    /\ op' = "none"
    /\ argType' = "undefined"
    /\ input' = <<>>
    /\ outcome' = "none"
    /\ issues' = <<>>
    /\ inside' = FALSE
    /\ used' = TRUE
    /\ UNCHANGED <<lastIndex, cliVars>>

Next == CallCheckPermission \/ CallIsInsideContainer \/ Continue

Spec == Init /\ [][Next]_vars

-----------------------------------------------------------------------------
(* The settings files a run finds, and the run *)

\* the most settings files a run finds
MaxFiles == 2

\* the most entries of a permissions.allow
MaxAllow == 2

\* entries of permissions.allow: without finding, with a LOW finding, with
\* a HIGH and a MEDIUM finding, and a number
PermPool ==
    {Str(<<"B", "a", "s", "h", "(", "n", "p", "m", " ", "i", "n", "s", "t", "a", "l", "l", ")">>), Str(<<"B", "a", "s", "h", "(", "g", "i", "t", " ", "p", "u", "s", "h", ")">>),
     Str(<<"B", "a", "s", "h", "(", "s", "u", "d", "o", " ", "c", "h", "m", "o", "d", " ", "7", "7", "7", " ", "/", "t", "m", "p", ")">>), NonString("number")}

AllowLists == UNION {[1..n -> PermPool] : n \in 0..MaxAllow}

\* permissions.deny and permissions.ask: both empty, or both with an entry
\* that would give a HIGH finding
DenyAsk ==
    {<< <<>>, <<>> >>, << <<Str(<<"B", "a", "s", "h", "(", "r", "m", " ", "-", "r", "f", " ", "/", ")">>)>>, <<Str(<<"B", "a", "s", "h">>)>> >>}

FileContents ==
    {Unreadable, NotJson, NoPermissions}
        \cup {[Settings(<<>>, d[1], d[2]) EXCEPT !.hasAllow = FALSE] : d \in DenyAsk}
        \cup {Settings(a, d[1], d[2]) : a \in AllowLists, d \in DenyAsk}

\* analyzeSettingsFile of every content, worked out once
Analyzed == [f \in FileContents |-> analyzeSettingsFile(f)]

\* main up to its loop: the arguments are read, help is shown or the files
\* are looked for
Main ==
    /\ pc = "start"
    /\ \E help \in BOOLEAN, low \in BOOLEAN, dir \in BOOLEAN, n \in 0..MaxFiles :
        IF help \/ ~dir
        THEN /\ pc' = "exited"
             /\ out' = Output("help")
             /\ exitStatus' = 0
             /\ UNCHANGED <<noLow, numFiles, fileIndex>>
        ELSE /\ noLow' = low
             /\ numFiles' = n
             /\ IF n = 0
                THEN /\ pc' = "exited"
                     /\ out' = Output("No Claude Code settings files found.")
                     /\ exitStatus' = 0
                     /\ UNCHANGED fileIndex
                ELSE /\ pc' = "loop"
                     /\ out' = Output("Found settings file(s), analyzing...")
                     /\ fileIndex' = 1
                     /\ UNCHANGED exitStatus
    /\ UNCHANGED <<content, raw, allFindings, checkerVars>>

\* the rest of one turn of the loop, f being the file read and r what
\* analyzeSettingsFile gave for it
Keep(f, r, kept) ==
    /\ content' = f
    /\ IF r.threw
       THEN /\ raw' = <<>>
            /\ pc' = "exited"
            /\ out' = Output("error")
            /\ exitStatus' = 0
            /\ UNCHANGED <<allFindings, fileIndex>>
       ELSE /\ raw' = r.value
            /\ allFindings' =
                   IF Len(kept) > 0
                   THEN Append(allFindings, [file |-> fileIndex, issues |-> kept])
                   ELSE allFindings
            /\ fileIndex' = fileIndex + 1
            /\ UNCHANGED <<pc, out, exitStatus>>

\* one turn of the loop over the files: the file is read and analysed, the
\* LOW issues are dropped under --no-low, and what is left is kept.  An
\* exception that analyzeSettingsFile lets through rejects main, which
\* main().catch(console.error) prints.
AnalyzeFile ==
    /\ pc = "loop"
    /\ fileIndex <= numFiles
    /\ \E f \in FileContents :
           Keep(f, Analyzed[f], filterLow(noLow, Analyzed[f].value))
    /\ UNCHANGED <<noLow, numFiles, checkerVars>>

\* main after its loop: nothing found, or the findings of each file, the
\* summary and process.exit(1)
Report ==
    /\ pc = "loop"
    /\ fileIndex > numFiles
    /\ pc' = "exited"
    /\ out' = IF allFindings = <<>>
              THEN Output("No dangerous patterns found.")
              ELSE LET lines == reportLines(allFindings, 1)
                   IN  [message |-> "Summary", lines |-> lines,
                        totals |-> [high |-> total(lines, "HIGH"),
                                    medium |-> total(lines, "MEDIUM"),
                                    low |-> total(lines, "LOW")]]
    /\ exitStatus' = exitStatusOf(allFindings)
    /\ UNCHANGED <<noLow, numFiles, fileIndex, content, raw, allFindings,
                   checkerVars>>

NextCli == Main \/ AnalyzeFile \/ Report

SpecCli == Init /\ [][NextCli]_vars

-----------------------------------------------------------------------------
(* What the claims speak of *)

\* checkPermission was called on a string and has returned
Checked == op = "checkPermission" /\ argType = "string" /\ outcome = "returned"

Names == [k \in DOMAIN issues |-> issues[k].name]

Reported(name) == \E k \in DOMAIN issues : issues[k].name = name

ReportedAs(name, severity) ==
    \E k \in DOMAIN issues :
        issues[k].name = name /\ issues[k].severity = severity

\* the matcher of the table's rule of that name matches s
RuleMatches(name, s) ==
    \E k \in 1..NumRules :
        /\ DANGEROUS_PATTERNS[k].name = name
        /\ test(DANGEROUS_PATTERNS[k].pattern.source, s)

BypassRules == {"docker --privileged", "docker mount root"}

-----------------------------------------------------------------------------
\* C1: containment exemption.  When isInsideContainer(s) is true, every
\* finding of checkPermission(s) comes from one of the two bypass rules, and
\* when neither of them matches s there is no finding at all.
C1_ContainmentExemption ==
    (Checked /\ isInsideContainer(Str(input)).value) =>
        /\ \A k \in DOMAIN issues : issues[k].name \in BypassRules
        /\ (\A b \in BypassRules : ~RuleMatches(b, input)) => issues = <<>>

\* sudo and rm -rf inside docker exec: nothing is reported
C1_Witness ==
    /\ Checked
    /\ input = <<"B", "a", "s", "h", "(", "d", "o", "c", "k", "e", "r", " ", "e", "x", "e", "c", " ", "m", "y", "-", "c", "o", "n", "t", "a", "i", "n", "e", "r", " ", "s", "u", "d", "o", " ", "r", "m", " ", "-", "r", "f", " ", "/", "t", "m", "p", ")">>
    /\ inside
    /\ issues = <<>>

\* C2: exemption bypass.  A string that matches the privileged-launch rule
\* or the host-root-mount rule gets that rule's MEDIUM finding, inside a
\* container or not; the two examples give exactly that finding, and a
\* normal volume mount gives none.
C2_ExemptionBypass ==
    Checked =>
        /\ \A b \in BypassRules :
               RuleMatches(b, input) => ReportedAs(b, "MEDIUM")
        /\ input = <<"B", "a", "s", "h", "(", "d", "o", "c", "k", "e", "r", " ", "r", "u", "n", " ", "-", "-", "p", "r", "i", "v", "i", "l", "e", "g", "e", "d", " ", "u", "b", "u", "n", "t", "u", ")">>
               => Names = <<"docker --privileged">>
        /\ input = <<"B", "a", "s", "h", "(", "d", "o", "c", "k", "e", "r", " ", "r", "u", "n", " ", "-", "v", " ", "/", ":", "/", "h", "o", "s", "t", " ", "u", "b", "u", "n", "t", "u", ")">>
               => Names = <<"docker mount root">>
        /\ input = <<"B", "a", "s", "h", "(", "d", "o", "c", "k", "e", "r", " ", "r", "u", "n", " ", "-", "v", " ", "/", "a", "p", "p", ":", "/", "a", "p", "p", " ", "u", "b", "u", "n", "t", "u", ")">> => issues = <<>>

\* a privileged launch that also mounts the host root, seen as contained
C2_Witness ==
    /\ Checked
    /\ input = <<"B", "a", "s", "h", "(", "d", "o", "c", "k", "e", "r", " ", "r", "u", "n", " ", "-", "-", "p", "r", "i", "v", "i", "l", "e", "g", "e", "d", " ", "-", "v", " ", "/", ":", "/", "h", "o", "s", "t", ")">>
    /\ inside
    /\ Names = <<"docker --privileged", "docker mount root">>

\* C3: isInsideContainer(s) is true if and only if the lower-cased s has
\* one of the eight prefixes as a substring at some position; it is false
\* for the empty string and for host commands that mention sudo or rm.
C3_ContainerDetector ==
    (op = "isInsideContainer" /\ argType = "string") =>
        /\ outcome = "returned"
        /\ inside <=>
               \E p \in {<<"d", "o", "c", "k", "e", "r", " ", "e", "x", "e", "c">>, <<"p", "o", "d", "m", "a", "n", " ", "e", "x", "e", "c">>, <<"n", "e", "r", "d", "c", "t", "l", " ", "e", "x", "e", "c">>,
                         <<"k", "u", "b", "e", "c", "t", "l", " ", "e", "x", "e", "c">>, <<"d", "o", "c", "k", "e", "r", " ", "r", "u", "n">>, <<"p", "o", "d", "m", "a", "n", " ", "r", "u", "n">>,
                         <<"o", "r", "b", " ", "r", "u", "n">>, <<"o", "r", "b", " ", "-", "m">>} :
                   \E i \in 1..Len(input) :
                       /\ i + Len(p) - 1 <= Len(input)
                       /\ toLowerCase(SubSeq(input, i, i + Len(p) - 1)) = p
        /\ input \in {<<>>, <<"s", "u", "d", "o", " ", "a", "p", "t", " ", "u", "p", "d", "a", "t", "e">>, <<"B", "a", "s", "h", "(", "s", "u", "d", "o", " ", "r", "m", " ", "-", "r", "f", " ", "/", "t", "m", "p", ")">>}
               => ~inside

\* a prefix in capitals, not at the start of the string
C3_Witness ==
    /\ op = "isInsideContainer"
    /\ input = <<"B", "a", "s", "h", "(", "D", "o", "c", "k", "e", "r", " ", "R", "u", "n", " ", "-", "-", "p", "r", "i", "v", "i", "l", "e", "g", "e", "d", ")">>
    /\ inside

-----------------------------------------------------------------------------
\* the allowlist entries of one word, and those of several
SingleWord ==
    {SAFE_SUDO_COMMANDS[k] : k \in {j \in DOMAIN SAFE_SUDO_COMMANDS :
                                        \A i \in DOMAIN SAFE_SUDO_COMMANDS[j] :
                                            SAFE_SUDO_COMMANDS[j][i] # " "}}

MultiWord == Range(SAFE_SUDO_COMMANDS) \ SingleWord

\* the first position from i on where s has a character of stop, or the
\* position after the end of s
TokenEnd(s, i, stop) ==
    CHOOSE j \in i..(Len(s) + 1) :
        /\ j = Len(s) + 1 \/ s[j] \in stop
        /\ \A k \in i..(j - 1) : s[k] \notin stop

\* in 'Bash(sudo c <args>)' and 'Bash(sudo c:*)', where c ends
SudoCEnd == TokenEnd(input, 11, Space \cup {":"})

\* the c of those forms, lower-cased
SudoC == toLowerCase(SubSeq(input, 11, SudoCEnd - 1))

\* the input is 'Bash(sudo c <args>)' or 'Bash(sudo c:*)'
SudoForm ==
    /\ HasAt(input, 1, <<"B", "a", "s", "h", "(", "s", "u", "d", "o", " ">>)
    /\ SudoCEnd > 11
    /\ \/ /\ SudoCEnd < Len(input)
          /\ input[SudoCEnd] = " "
          /\ input[Len(input)] = ")"
       \/ SubSeq(input, SudoCEnd, Len(input)) = <<":", "*", ")">>

\* the lower-cased input has 'sudo e' for an entry e of several words
HasMultiWordEntry ==
    \E e \in MultiWord :
        \E i \in 1..Len(input) :
            /\ i + Len(e) + 4 <= Len(input)
            /\ toLowerCase(SubSeq(input, i, i + Len(e) + 4)) = <<"s", "u", "d", "o", " ">> \o e

SudoNames == {"sudo", "sudo (read-only)"}

SudoFindings == {k \in DOMAIN issues : issues[k].name \in SudoNames}

-----------------------------------------------------------------------------
GitNames == {"git push --force", "git push --force-with-lease", "git push"}

GitFindings == {k \in DOMAIN issues : issues[k].name \in GitNames}

\* the positions after a word-bounded 'git push': git, whitespace, push,
\* with no word character before git or after push
GitPushEnds ==
    {j \in 1..(Len(input) + 1) :
        /\ HasAt(input, j - 4, <<"p", "u", "s", "h">>)
        /\ ~IsWordAt(input, j)
        /\ \E i \in 1..(j - 8) :
               /\ HasAt(input, i, <<"g", "i", "t">>)
               /\ ~IsWordAt(input, i - 1)
               /\ \A k \in (i + 3)..(j - 5) : input[k] \in Space}

\* a standalone -f or --force starts at position k: whitespace before it,
\* no word character after it, and not the beginning of --force-with-lease
StandaloneForce(k) ==
    /\ k >= 2
    /\ input[k - 1] \in Space
    /\ \E f \in {<<"-", "f">>, <<"-", "-", "f", "o", "r", "c", "e">>} :
           /\ HasAt(input, k, f)
           /\ ~IsWordAt(input, k + Len(f))
           /\ ~HasAt(input, k + Len(f), <<"-", "w", "i", "t", "h", "-", "l", "e", "a", "s", "e">>)

\* the flag --force-with-lease starts at position k
ForceWithLease(k) ==
    /\ HasAt(input, k, <<"-", "-", "f", "o", "r", "c", "e", "-", "w", "i", "t", "h", "-", "l", "e", "a", "s", "e">>)
    /\ ~IsWordAt(input, k + 18)

ForcePositions == {k \in 1..Len(input) : StandaloneForce(k)}

LeasePositions == {k \in 1..Len(input) : ForceWithLease(k)}

\* a standalone -f or --force follows a git push
ForceFollows == \E j \in GitPushEnds : \E k \in ForcePositions : k > j

\* --force-with-lease follows a git push
LeaseFollows == \E j \in GitPushEnds : \E k \in LeasePositions : k >= j

\* a standalone -f or --force follows a git push with no line break
\* between the two
ForceFollowsOnLine ==
    \E j \in GitPushEnds : \E k \in ForcePositions :
        k > j /\ \A n \in j..(k - 1) : input[n] \notin {"\n", "\r"}

\* C5: git-push tiers.  For a permission not inside a container there is
\* no git-push finding when the string has no word-bounded 'git push', and
\* otherwise exactly one: 'git push --force' HIGH when a standalone -f or
\* --force follows git push, else 'git push --force-with-lease' MEDIUM when
\* --force-with-lease follows, else 'git push' LOW.  A string whose only
\* force flag is --force-with-lease is never HIGH.
C5_GitPushTiers ==
    (Checked /\ ~inside) =>
        /\ GitPushEnds = {} => GitFindings = {}
        /\ GitPushEnds # {} =>
               /\ Cardinality(GitFindings) = 1
               /\ IF ForceFollows
                  THEN ReportedAs("git push --force", "HIGH")
                  ELSE IF LeaseFollows
                  THEN ReportedAs("git push --force-with-lease", "MEDIUM")
                  ELSE ReportedAs("git push", "LOW")
        /\ (ForcePositions = {} /\ LeasePositions # {})
               => ~Reported("git push --force")

OneLine == \A n \in DOMAIN input : input[n] \notin {"\n", "\r"}

-----------------------------------------------------------------------------
Severities == {"HIGH", "MEDIUM", "LOW"}

\* name, severity and description of each branch of the sub-classifiers
BranchValues == {
    <<"sudo (read-only)", "LOW",
      "Runs read-only command as root (info disclosure only)">>,
    <<"sudo", "MEDIUM", "Runs commands as root/administrator">>,
    <<"git push --force", "HIGH",
      "Overwrites remote git history, can destroy work">>,
    <<"git push --force-with-lease", "MEDIUM",
      "Safer force push but still rewrites history">>,
    <<"git push", "LOW", "Pushes commits to remote repository">> }

Values(f) == <<f.name, f.severity, f.description>>

\* C7: finding invariant.  Every finding of checkPermission(s) has a
\* severity of HIGH, MEDIUM or LOW, has s itself as its permission, and has
\* the name, severity and description of a table rule that matches s or of
\* a branch of a sub-classifier.
C7_FindingInvariant ==
    Checked =>
        \A k \in DOMAIN issues :
            /\ DOMAIN issues[k] = {"name", "severity", "description", "permission"}
            /\ issues[k].severity \in Severities
            /\ issues[k].permission = input
            /\ \/ Values(issues[k]) \in BranchValues
               \/ \E r \in Range(DANGEROUS_PATTERNS) :
                      /\ Values(issues[k]) = Values(r)
                      /\ test(r.pattern.source, input)

\* a finding on a permission with capitals, which are kept
C7_Witness ==
    /\ Checked
    /\ input = <<"B", "a", "s", "h", "(", "s", "u", "d", "o", " ", "L", "S", " ", "-", "l", ")">>
    /\ Len(issues) = 1
    /\ issues[1].name = "sudo (read-only)"
    /\ issues[1].permission = <<"B", "a", "s", "h", "(", "s", "u", "d", "o", " ", "L", "S", " ", "-", "l", ")">>

\* the table's rules whose matcher matches the input, in table order
MatchingRules ==
    SelectSeq(DANGEROUS_PATTERNS, LAMBDA r : test(r.pattern.source, input))

OneOrNone(names) == {<<>>} \cup {<<n>> : n \in names}

NamesAndSeverities ==
    [k \in DOMAIN issues |-> <<issues[k].name, issues[k].severity>>]

\* C8: result composition and order.  For a permission not inside a
\* container the findings are those of every table rule that matches, in
\* table order, then the git-push finding if any, then the sudo finding if
\* any; 'Bash(sudo chmod 777 /tmp)' gives 'chmod 777' HIGH, 'sudo' MEDIUM.
C8_CompositionAndOrder ==
    (Checked /\ ~inside) =>
        /\ \E g \in OneOrNone(GitNames) : \E s \in OneOrNone(SudoNames) :
               Names = [k \in DOMAIN MatchingRules |-> MatchingRules[k].name]
                           \o g \o s
        /\ \A k \in DOMAIN MatchingRules :
               issues[k].severity = MatchingRules[k].severity
        /\ input = <<"B", "a", "s", "h", "(", "s", "u", "d", "o", " ", "c", "h", "m", "o", "d", " ", "7", "7", "7", " ", "/", "t", "m", "p", ")">>
               => NamesAndSeverities =
                      << <<"chmod 777", "HIGH">>, <<"sudo", "MEDIUM">> >>

\* two table rules, the git-push finding and the sudo finding at once
C8_Witness ==
    /\ Checked
    /\ ~inside
    /\ input = <<"B", "a", "s", "h", "(", "s", "u", "d", "o", " ", "c", "h", "m", "o", "d", " ", "7", "7", "7", " ", "/", "t", "m", "p", " ", "&", "&", " ", "c", "h", "m", "o", "d", " ", "-", "R", " ", "a", "+", "w", " ", "/", " ", "&", "&", " ", "g", "i", "t", " ", "p", "u", "s", "h", " ", "-", "f", ")">>
    /\ Names = <<"chmod 777", "chmod -R", "git push --force", "sudo">>

\* C9: no hidden state.  After any calls of checkPermission and
\* isInsideContainer, checkPermission(s) gives the findings a first call
\* on s gives, and the RegExp objects of the rule table are as they were
\* made.
C9_NoHiddenState ==
    /\ lastIndex = [k \in 1..NumRules |-> 0]
    /\ Checked =>
           issues = checkPermission(Str(input), [k \in 1..NumRules |-> 0]).value

\* a call with findings after earlier calls
C9_Witness ==
    /\ used
    /\ Checked
    /\ input = <<"B", "a", "s", "h", "(", "s", "u", "d", "o", " ", "c", "h", "m", "o", "d", " ", "7", "7", "7", " ", "/", "t", "m", "p", ")">>
    /\ Names = <<"chmod 777", "sudo">>

\* no rule of the table, no git push and no sudo in the input
NoPattern ==
    /\ \A r \in Range(DANGEROUS_PATTERNS) : ~test(r.pattern.source, input)
    /\ GitPushEnds = {}
    /\ \A i \in 1..Len(input) : ~HasAt(input, i, <<"s", "u", "d", "o">>)

\* C10: totality.  checkPermission and isInsideContainer return for every
\* string; a string that matches no pattern, as '', 'WebSearch' and
\* 'Bash(npm install)', gives no finding.
C10_Totality ==
    (op # "none" /\ argType = "string") =>
        /\ outcome = "returned"
        /\ (op = "checkPermission" /\ NoPattern) => issues = <<>>
        /\ (op = "checkPermission"
                /\ input \in {<<>>, <<"W", "e", "b", "S", "e", "a", "r", "c", "h">>, <<"B", "a", "s", "h", "(", "n", "p", "m", " ", "i", "n", "s", "t", "a", "l", "l", ")">>})
               => issues = <<>>

\* a string with an unclosed quote and parenthesis
C10_Witness ==
    /\ Checked
    /\ input = <<"B", "a", "s", "h", "(", "e", "c", "h", "o", " ", "'", "h", "i", ")">>
    /\ issues = <<>>

-----------------------------------------------------------------------------
AllowAll == "Allows ANY bash command without approval"

\* C11: unrestricted shell approval.  checkPermission(s) has the finding
\* 'Bash (allow all)' HIGH if and only if s is exactly 'Bash'; 'Bash' gives
\* that one finding alone, and 'Bash(npm install)' and 'Bash(ls *.js)' do
\* not give it.
C11_AllowAll ==
    Checked =>
        /\ Reported("Bash (allow all)") <=> input = <<"B", "a", "s", "h">>
        /\ Reported("Bash (allow all)") => ReportedAs("Bash (allow all)", "HIGH")
        /\ input = <<"B", "a", "s", "h">>
               => NamesAndSeverities = << <<"Bash (allow all)", "HIGH">> >>
        /\ input \in {<<"B", "a", "s", "h", "(", "n", "p", "m", " ", "i", "n", "s", "t", "a", "l", "l", ")">>, <<"B", "a", "s", "h", "(", "l", "s", " ", "*", ".", "j", "s", ")">>}
               => ~Reported("Bash (allow all)")

\* the bare tool name
C11_Witness ==
    /\ Checked
    /\ input = <<"B", "a", "s", "h">>
    /\ Len(issues) = 1
    /\ issues[1].name = "Bash (allow all)"
    /\ issues[1].description = AllowAll

\* C12: the wildcard approval 'Bash(*)' is flagged.  checkPermission of
\* 'Bash(*)' gives exactly one finding, of severity HIGH, which says that
\* the entry allows any bash command.
C12_WildcardFlagged ==
    (Checked /\ input = <<"B", "a", "s", "h", "(", "*", ")">>) =>
        /\ Len(issues) = 1
        /\ issues[1].severity = "HIGH"
        /\ issues[1].description = AllowAll

-----------------------------------------------------------------------------
\* rm stands at position i as a command word with arguments: no word
\* character before it, whitespace after it, and not 'docker rm' or
\* 'podman rm'
RmAt(i) ==
    /\ HasAt(input, i, <<"r", "m">>)
    /\ ~IsWordAt(input, i - 1)
    /\ i + 2 <= Len(input)
    /\ input[i + 2] \in Space
    /\ ~HasAt(input, i - 7, <<"d", "o", "c", "k", "e", "r", " ">>)
    /\ ~HasAt(input, i - 7, <<"p", "o", "d", "m", "a", "n", " ">>)

\* the first position from p on that holds no whitespace
NextNonSpace(p) ==
    CHOOSE j \in p..(Len(input) + 1) :
        /\ j = Len(input) + 1 \/ input[j] \notin Space
        /\ \A k \in p..(j - 1) : input[k] \in Space

\* where the flag that starts at p ends: its dashes and letters
FlagEnd(p) == TokenEnd(input, p, {input[k] : k \in DOMAIN input}
                                     \ (Letter \cup {"-"}))

\* -f, a cluster of short flags with an f, or --force
IsForceFlag(t) ==
    \/ t = <<"-", "-", "f", "o", "r", "c", "e">>
    \/ /\ Len(t) >= 2
       /\ t[1] = "-"
       /\ \A k \in 2..Len(t) : t[k] \in Letter
       /\ \E k \in 2..Len(t) : t[k] = "f"

RECURSIVE ForceAmongFlags(_)
\* of the flag arguments that begin at p, one is a force flag
ForceAmongFlags(p) ==
    IF p > Len(input) \/ input[p] # "-" THEN FALSE
    ELSE LET e == FlagEnd(p)
         IN  \/ IsForceFlag(SubSeq(input, p, e - 1))
             \/ /\ e <= Len(input)
                /\ input[e] \in Space
                /\ ForceAmongFlags(NextNonSpace(e))

\* an rm command whose flag arguments have a force flag
RmForced ==
    \E i \in 1..Len(input) : RmAt(i) /\ ForceAmongFlags(NextNonSpace(i + 2))

\* C13: forced delete.  For a permission not inside a container with an rm
\* command, not 'docker rm' or 'podman rm', whose flag arguments have a
\* force flag (-f, a cluster with an f, --force; the first argument or a
\* later one as in 'rm -r -f') there is an 'rm -rf' HIGH finding; with no
\* force flag there is none.
C13_ForcedDelete ==
    (Checked /\ ~inside) =>
        /\ RmForced => ReportedAs("rm -rf", "HIGH")
        /\ ~RmForced => ~Reported("rm -rf")

-----------------------------------------------------------------------------
\* the positions after 'git clean': git, whitespace, clean, with no word
\* character before git or after clean
GitCleanEnds ==
    {j \in 1..(Len(input) + 1) :
        /\ HasAt(input, j - 5, <<"c", "l", "e", "a", "n">>)
        /\ ~IsWordAt(input, j)
        /\ \E i \in 1..(j - 9) :
               /\ HasAt(input, i, <<"g", "i", "t">>)
               /\ ~IsWordAt(input, i - 1)
               /\ \A k \in (i + 3)..(j - 6) : input[k] \in Space}

RECURSIVE FlagLetters(_)
\* the letters of the short-flag arguments that begin at p
FlagLetters(p) ==
    IF p > Len(input) \/ input[p] # "-" THEN {}
    ELSE LET e == FlagEnd(p)
             t == SubSeq(input, p + 1, e - 1)
         IN  (IF \A k \in DOMAIN t : t[k] \in Letter THEN Range(t) ELSE {})
                 \cup (IF e <= Len(input) /\ input[e] \in Space
                       THEN FlagLetters(NextNonSpace(e)) ELSE {})

\* a git clean whose flags have both an f and a d
CleanForceDirs ==
    \E j \in GitCleanEnds :
        j <= Len(input) /\ input[j] \in Space
            /\ {"f", "d"} \subseteq FlagLetters(NextNonSpace(j))

\* C14: forced untracked cleanup.  For a permission not inside a container
\* the finding 'git clean -fd' MEDIUM is reported exactly when the flags of
\* git clean have both an f and a d, in either order; with f and no d, d
\* and no f, or neither, there is no such finding.
C14_ForcedCleanup ==
    (Checked /\ ~inside) =>
        /\ CleanForceDirs => ReportedAs("git clean -fd", "MEDIUM")
        /\ ~CleanForceDirs => ~Reported("git clean -fd")

-----------------------------------------------------------------------------
\* the places where the lower-cased input has a container prefix
ContainerAt ==
    {i \in 1..Len(input) :
        \E k \in DOMAIN CONTAINER_PREFIXES :
            HasAt(toLowerCase(input), i, CONTAINER_PREFIXES[k])}

\* the text before the first container invocation
HostPart ==
    SubSeq(input, 1, (CHOOSE i \in ContainerAt : \A j \in ContainerAt : i <= j) - 1)

\* what checkPermission finds in that text alone
HostFindings ==
    checkPermission(Str(HostPart), [k \in 1..NumRules |-> 0]).value

\* C19: only commands that run inside the container are exempt.  When a
\* permission has a host command before the container invocation, as in
\* 'Bash(rm -rf ~ && docker exec c ls)' and 'Bash(sudo apt install x;
\* docker exec c ls)', the finding for that host command is reported.
C19_HostCommandReported ==
    (Checked /\ inside) =>
        /\ \A k \in DOMAIN HostFindings : Reported(HostFindings[k].name)
        /\ input = <<"B", "a", "s", "h", "(", "r", "m", " ", "-", "r", "f", " ", "~", " ", "&", "&", " ", "d", "o", "c", "k", "e", "r", " ", "e", "x", "e", "c", " ", "c", " ", "l", "s", ")">>
               => ReportedAs("rm -rf", "HIGH")
        /\ input = <<"B", "a", "s", "h", "(", "s", "u", "d", "o", " ", "a", "p", "t", " ", "i", "n", "s", "t", "a", "l", "l", " ", "x", ";", " ", "d", "o", "c", "k", "e", "r", " ", "e", "x", "e", "c", " ", "c", " ", "l", "s", ")">>
               => ReportedAs("sudo", "MEDIUM")

\* sudo stands at position i as a command: at the start of the string,
\* right after 'Bash(', or after one of ; & | ' " and any whitespace; and
\* whitespace and an argument follow it
SudoCommandAt(i) ==
    /\ HasAt(input, i, <<"s", "u", "d", "o">>)
    /\ \/ i = 1
       \/ HasAt(input, i - 5, <<"B", "a", "s", "h", "(">>)
       \/ \E j \in 1..(i - 1) :
              /\ input[j] \in {";", "&", "|", "'", "\""}
              /\ \A k \in (j + 1)..(i - 1) : input[k] \in Space
    /\ i + 4 <= Len(input)
    /\ input[i + 4] \in Space
    /\ NextNonSpace(i + 4) <= Len(input)

-----------------------------------------------------------------------------
(* What the claims on the command line speak of *)

\* main has gone through a scan and the process has ended
ScanEnded == pc = "exited" /\ out.message # "help"

\* the loop of main has analysed a file: the one numbered fileIndex - 1,
\* or the one at which main was rejected
Analysed == pc # "start" /\ numFiles > 0 /\ (fileIndex > 1 \/ out.message = "error")

LastFile == IF out.message = "error" THEN fileIndex ELSE fileIndex - 1

\* the issues of the file analysed last that remain to be reported
Remaining == SelectSeq(raw, LAMBDA i : ~(noLow /\ i.severity = "LOW"))

\* the entries of allFindings for a file
EntriesOf(file) == {k \in DOMAIN allFindings : allFindings[k].file = file}

\* C15: exit status.  A scan ends with status 1 if and only if a finding
\* remains to be reported after the --no-low filtering: a file is kept in
\* allFindings exactly when such a finding remains for it, and the status
\* is 1 exactly when a file was kept.  With no settings file found, or no
\* finding remaining, the status is 0 and no finding is printed.
C15_ExitStatus ==
    /\ pc # "exited" => exitStatus = -1
    /\ \A k \in DOMAIN allFindings : Len(allFindings[k].issues) > 0
    /\ Analysed => (Len(Remaining) > 0 <=> EntriesOf(LastFile) # {})
    /\ ScanEnded =>
           /\ exitStatus \in {0, 1}
           /\ exitStatus = 1 <=> Len(allFindings) > 0
           /\ exitStatus = 0 => out.lines = <<>>
           /\ exitStatus = 1 => Len(out.lines) > 0
           /\ numFiles = 0 => exitStatus = 0

\* under --no-low, a file with findings and then a file whose findings are
\* all LOW: status 1 for the first file alone
C15_Witness ==
    /\ ScanEnded
    /\ noLow
    /\ numFiles = 2
    /\ Len(raw) > 0
    /\ \A k \in DOMAIN raw : raw[k].severity = "LOW"
    /\ Len(allFindings) = 1
    /\ exitStatus = 1

\* the number of issues in the entries of allFindings up to entry k
RECURSIVE IssuesUpTo(_)
IssuesUpTo(k) == IF k = 0 THEN 0 ELSE IssuesUpTo(k - 1) + Len(allFindings[k].issues)

\* C16: --no-low.  With --no-low no LOW finding is printed or counted,
\* every HIGH and MEDIUM finding of a file is kept and printed, and a file
\* whose findings are all LOW is left out; without it every finding of every
\* file is kept and printed.
C16_NoLow ==
    /\ Analysed /\ out.message # "error" =>
           IF Len(Remaining) = 0 THEN EntriesOf(LastFile) = {}
           ELSE /\ Len(allFindings) > 0
                /\ allFindings[Len(allFindings)] =
                       [file |-> LastFile, issues |-> Remaining]
    /\ ~noLow => Remaining = raw
    /\ ScanEnded /\ Len(allFindings) > 0 =>
           /\ Len(out.lines) = IssuesUpTo(Len(allFindings))
           /\ \A k \in DOMAIN allFindings : \A n \in DOMAIN allFindings[k].issues :
                  LET line == out.lines[IssuesUpTo(k - 1) + n]
                      i == allFindings[k].issues[n]
                  IN  /\ line.file = allFindings[k].file
                      /\ line.severity = i.severity
                      /\ line.name = i.name
                      /\ line.permission = i.permission
           /\ out.totals.high =
                  Cardinality({n \in DOMAIN out.lines : out.lines[n].severity = "HIGH"})
           /\ out.totals.medium =
                  Cardinality({n \in DOMAIN out.lines : out.lines[n].severity = "MEDIUM"})
           /\ out.totals.low =
                  Cardinality({n \in DOMAIN out.lines : out.lines[n].severity = "LOW"})
           /\ noLow => /\ out.totals.low = 0
                       /\ \A n \in DOMAIN out.lines : out.lines[n].severity # "LOW"

\* under --no-low, one file with a LOW, a HIGH and a MEDIUM finding: the
\* HIGH and the MEDIUM are printed
C16_Witness ==
    /\ ScanEnded
    /\ noLow
    /\ numFiles = 1
    /\ [k \in DOMAIN raw |-> raw[k].severity] = <<"LOW", "HIGH", "MEDIUM">>
    /\ [n \in DOMAIN out.lines |-> out.lines[n].severity] = <<"HIGH", "MEDIUM">>
    /\ out.totals = [high |-> 1, medium |-> 1, low |-> 0]

\* C17: skip and continue.  A settings file that cannot be read or parsed
\* gives no finding and does not end the scan: the loop goes on to the next
\* file, and a scan ends only after the last file, with its report.
C17_SkipAndContinue ==
    /\ Analysed /\ (~content.readable \/ ~content.parses) =>
           /\ raw = <<>>
           /\ EntriesOf(LastFile) = {}
           /\ out.message # "error"
           /\ pc = "loop" \/ fileIndex = numFiles + 1
    /\ ScanEnded /\ numFiles > 0 =>
           /\ fileIndex = numFiles + 1
           /\ out.message \in {"Summary", "No dangerous patterns found."}

\* a file with findings, then a file that is no JSON: the findings of the
\* first are reported
C17_Witness ==
    /\ ScanEnded
    /\ numFiles = 2
    /\ content = NotJson
    /\ Len(allFindings) = 1
    /\ allFindings[1].file = 1
    /\ out.message = "Summary"
    /\ exitStatus = 1

\* checkPermission of every entry of the pool, worked out once
PoolFindings == [p \in PermPool |-> checkPermission(p, FreshIndex)]

RECURSIVE Concatenation(_, _)
\* the findings of the entries of list from entry k on, one after another
Concatenation(list, k) ==
    IF k > Len(list) THEN <<>>
    ELSE PoolFindings[list[k]].value \o Concatenation(list, k + 1)

\* C18: only the allow list is audited.  The findings of a settings file
\* whose permissions.allow holds strings are the findings of checkPermission
\* for each entry, in the order of the entries; what permissions.deny and
\* permissions.ask hold gives no finding, and a file without permissions or
\* without allow gives none.
C18_OnlyAllow ==
    (Analysed /\ content.readable /\ content.parses) =>
        /\ (content.hasPermissions /\ content.hasAllow
                /\ \A k \in DOMAIN content.allow : content.allow[k].type = "string")
               => raw = Concatenation(content.allow, 1)
        /\ ~(content.hasPermissions /\ content.hasAllow) => raw = <<>>
        /\ \A n \in DOMAIN raw : \E k \in DOMAIN content.allow :
               content.allow[k].chars = raw[n].permission

\* two entries with findings in allow, dangerous entries in deny and ask
C18_Witness ==
    /\ Analysed
    /\ content = Settings(<<Str(<<"B", "a", "s", "h", "(", "s", "u", "d", "o", " ", "c", "h", "m", "o", "d", " ", "7", "7", "7", " ", "/", "t", "m", "p", ")">>), Str(<<"B", "a", "s", "h", "(", "g", "i", "t", " ", "p", "u", "s", "h", ")">>)>>,
                          <<Str(<<"B", "a", "s", "h", "(", "r", "m", " ", "-", "r", "f", " ", "/", ")">>)>>, <<Str(<<"B", "a", "s", "h">>)>>)
    /\ [k \in DOMAIN raw |-> raw[k].name] = <<"chmod 777", "sudo", "git push">>

-----------------------------------------------------------------------------
(* The command a sudo elevates *)

\* the places where sudo stands as a command
SudoPlaces == {i \in 1..Len(input) : SudoCommandAt(i)}

\* the sudo checkSudo locates: the first of them
LocatedSudo == CHOOSE i \in SudoPlaces : \A j \in SudoPlaces : i <= j

\* the text that follows the sudo at i and its whitespace, lower-cased
ElevatedAt(i) ==
    toLowerCase(SubSeq(input, NextNonSpace(i + 4), Len(input)))

\* a text begins with the allowlist entry e as whole words
BeginsWith(text, e) == HasAt(text, 1, e) /\ ~IsWordAt(text, Len(e) + 1)

\* the sudo at i elevates a command of the read-only allowlist
ReadOnlyAt(i) ==
    \E e \in Range(SAFE_SUDO_COMMANDS) : BeginsWith(ElevatedAt(i), e)

\* C21: the severity follows the elevated command.  For a permission not
\* inside a container, when what follows the located sudo is no entry of
\* the read-only allowlist, of one word or of several, the sudo finding is
\* 'sudo' MEDIUM, whatever the string holds elsewhere.
C21_ElevatedCommandDecides ==
    (Checked /\ ~inside /\ SudoPlaces # {} /\ ~ReadOnlyAt(LocatedSudo)) =>
        /\ ReportedAs("sudo", "MEDIUM")
        /\ ~Reported("sudo (read-only)")

-----------------------------------------------------------------------------
\* the input opens with head and closes with tail, with text between them
Between(head, tail) ==
    /\ Len(input) >= Len(head) + Len(tail)
    /\ HasAt(input, 1, head)
    /\ HasAt(input, Len(input) - Len(tail) + 1, tail)

\* the text between them
Body(head, tail) == SubSeq(input, Len(head) + 1, Len(input) - Len(tail))

\* a text that only stands for itself: none of the given quotes closes it
\* and no command substitution runs inside it
Plain(text, quotes) ==
    \A k \in DOMAIN text :
        /\ text[k] \notin quotes
        /\ ~HasAt(text, k, <<"$", "(">>)

\* the quoted message of an echo or of a git commit -m, or the body of the
\* here-document that gives the message, is all there is after the command
MessageOnly ==
    \/ \E q \in {<<"'">>, <<"\"">>} :
           \E c \in {<<"B", "a", "s", "h", "(", "e", "c", "h", "o", " ">>, <<"B", "a", "s", "h", "(", "g", "i", "t", " ", "c", "o", "m", "m", "i", "t", " ", "-", "m", " ">>} :
               /\ Between(c \o q, q \o <<")">>)
               /\ Plain(Body(c \o q, q \o <<")">>), {q[1]})
    \/ /\ Between(<<"B", "a", "s", "h", "(", "g", "i", "t", " ", "c", "o", "m", "m", "i", "t", " ", "-", "m", " ", "\"", "$", "(", "c", "a", "t", " ", "<", "<", "'", "E", "O", "F", "'", "\n">>, <<"\n", "E", "O", "F", "\n", ")", "\"", ")">>)
       /\ Plain(Body(<<"B", "a", "s", "h", "(", "g", "i", "t", " ", "c", "o", "m", "m", "i", "t", " ", "-", "m", " ", "\"", "$", "(", "c", "a", "t", " ", "<", "<", "'", "E", "O", "F", "'", "\n">>, <<"\n", "E", "O", "F", "\n", ")", "\"", ")">>), {})

\* the word sudo is in the input
HasSudoWord ==
    \E i \in 1..Len(input) :
        HasAt(input, i, <<"s", "u", "d", "o">>) /\ ~IsWordAt(input, i - 1) /\ ~IsWordAt(input, i + 4)

\* C22: sudo in message text.  When the word sudo is only in the text of a
\* quoted message (of echo "..." or git commit -m "...", or of the
\* here-document that gives it) and is no command that is run,
\* checkPermission reports no sudo finding, wherever in the message the
\* word stands.
C22_SudoInMessage ==
    (Checked /\ MessageOnly /\ HasSudoWord) => SudoFindings = {}

-----------------------------------------------------------------------------
\* the input is 'Bash(sudo c)' or "Bash(tmux send-keys 'sudo c' Enter)" for
\* an allowlist entry c of one word
BareReadOnly ==
    \E c \in SingleWord :
        \/ input = <<"B", "a", "s", "h", "(", "s", "u", "d", "o", " ">> \o c \o <<")">>
        \/ input = <<"B", "a", "s", "h", "(", "t", "m", "u", "x", " ", "s", "e", "n", "d", "-", "k", "e", "y", "s", " ", "'", "s", "u", "d", "o", " ">> \o c \o <<"'", " ", "E", "n", "t", "e", "r", ")">>

\* C23: bare read-only sudo.  For an allowlist entry c of one word, a
\* permission where c is the last word before a closing delimiter,
\* 'Bash(sudo c)' or "Bash(tmux send-keys 'sudo c' Enter)", has the finding
\* 'sudo (read-only)' LOW, as 'Bash(sudo c <args>)' and 'Bash(sudo c:*)'
\* have.
C23_BareReadOnly ==
    (Checked /\ ~inside /\ BareReadOnly) =>
        /\ ReportedAs("sudo (read-only)", "LOW")
        /\ ~Reported("sudo")

-----------------------------------------------------------------------------
\* C24: no dangerous sudo is hidden by a read-only one.  For a permission
\* not inside a container, when any sudo at a command position elevates a
\* command that is not on the read-only allowlist, there is a 'sudo' MEDIUM
\* finding, also when an earlier sudo of the string elevates a read-only
\* command, as in 'Bash(sudo ls -la; sudo reboot now)'.
C24_NoHiddenSudo ==
    (Checked /\ ~inside /\ \E i \in SudoPlaces : ~ReadOnlyAt(i)) =>
        ReportedAs("sudo", "MEDIUM")

-----------------------------------------------------------------------------
\* one argument word: no whitespace and no shell operator in it
OneWord(text) ==
    /\ Len(text) > 0
    /\ \A k \in DOMAIN text : text[k] \notin Space \cup {";", "&", "|"}

\* the input is 'Bash(sudo e)' or 'Bash(sudo e <arg>)' for an allowlist
\* entry e of several words
MultiWordForm ==
    \E e \in MultiWord :
        \/ input = <<"B", "a", "s", "h", "(", "s", "u", "d", "o", " ">> \o e \o <<")">>
        \/ /\ Between(<<"B", "a", "s", "h", "(", "s", "u", "d", "o", " ">> \o e \o <<" ">>, <<")">>)
           /\ OneWord(Body(<<"B", "a", "s", "h", "(", "s", "u", "d", "o", " ">> \o e \o <<" ">>, <<")">>))

\* C25: read-only entries of several words.  For each allowlist entry e of
\* several words ('systemctl status', 'fdisk -l', 'parted -l'),
\* 'Bash(sudo e)' and 'Bash(sudo e <arg>)' have exactly one finding,
\* 'sudo (read-only)' LOW.
C25_MultiWordReadOnly ==
    (Checked /\ MultiWordForm) =>
        NamesAndSeverities = << <<"sudo (read-only)", "LOW">> >>

-----------------------------------------------------------------------------
\* the name of a container: letters, digits, _ and -
ContainerName(text) ==
    /\ Len(text) > 0
    /\ \A k \in DOMAIN text : text[k] \in WordChar \cup {"-"}

\* the commands that remove a container by force
RemoveContainer == {<<"B", "a", "s", "h", "(", "d", "o", "c", "k", "e", "r", " ", "r", "m", " ", "-", "f", " ">>, <<"B", "a", "s", "h", "(", "p", "o", "d", "m", "a", "n", " ", "r", "m", " ", "-", "f", " ">>}

\* an rm command whose first argument is a force flag
RmForcedFirst ==
    \E i \in 1..Len(input) :
        /\ RmAt(i)
        /\ LET p == NextNonSpace(i + 2)
           IN  /\ p <= Len(input)
               /\ input[p] = "-"
               /\ IsForceFlag(SubSeq(input, p, FlagEnd(p) - 1))

-----------------------------------------------------------------------------
\* a file as the target of rm: one word with no wildcard, that is no flag
FileTarget(text) ==
    /\ Len(text) > 0
    /\ text[1] # "-"
    /\ \A k \in DOMAIN text : text[k] \in WordChar \cup {".", "/", "-", "~"}

\* C27: unqualified broad delete.  Not inside a container, 'Bash(rm)' and
\* 'Bash(rm *)' each have exactly one finding, 'rm (broad)' LOW; an rm of a
\* file with no wildcard and no force flag, as 'Bash(rm file.txt)', has no
\* finding; inside a container, as in 'Bash(docker exec app rm)', nothing
\* is reported.
C27_BroadDelete ==
    Checked =>
        /\ input \in {<<"B", "a", "s", "h", "(", "r", "m", ")">>, <<"B", "a", "s", "h", "(", "r", "m", " ", "*", ")">>}
               => NamesAndSeverities = << <<"rm (broad)", "LOW">> >>
        /\ (Between(<<"B", "a", "s", "h", "(", "r", "m", " ">>, <<")">>) /\ FileTarget(Body(<<"B", "a", "s", "h", "(", "r", "m", " ">>, <<")">>)))
               => issues = <<>>
        /\ inside => ~Reported("rm (broad)")
        /\ input \in {<<"B", "a", "s", "h", "(", "d", "o", "c", "k", "e", "r", " ", "e", "x", "e", "c", " ", "a", "p", "p", " ", "r", "m", ")">>, <<"B", "a", "s", "h", "(", "d", "o", "c", "k", "e", "r", " ", "e", "x", "e", "c", " ", "a", "p", "p", " ", "r", "m", " ", "*", ")">>}
               => issues = <<>>

\* rm of everything in the directory
C27_Witness ==
    /\ Checked
    /\ ~inside
    /\ input = <<"B", "a", "s", "h", "(", "r", "m", " ", "*", ")">>
    /\ NamesAndSeverities = << <<"rm (broad)", "LOW">> >>

-----------------------------------------------------------------------------
\* C28: prefix-wildcard rm.  'Bash(rm:*)', which approves rm with any
\* arguments in the ':*' form, has an 'rm (broad)' LOW finding, as
\* 'Bash(rm *)' has.
C28_PrefixWildcardRm ==
    (Checked /\ input = <<"B", "a", "s", "h", "(", "r", "m", ":", "*", ")">>) => ReportedAs("rm (broad)", "LOW")

-----------------------------------------------------------------------------
\* C29: a malformed entry does not hide valid ones.  When permissions.allow
\* of a settings file that is read and parsed holds an entry that is no
\* string among entries that are strings, the findings of the entries that
\* are strings are still among the findings of the file.
C29_MalformedEntry ==
    (Analysed /\ content.readable /\ content.parses
              /\ content.hasPermissions /\ content.hasAllow) =>
        \A k \in DOMAIN content.allow :
            content.allow[k].type = "string" =>
                \A n \in DOMAIN PoolFindings[content.allow[k]].value :
                    \E m \in DOMAIN raw :
                        raw[m] = PoolFindings[content.allow[k]].value[n]

-----------------------------------------------------------------------------
Alnum == Letter \cup Digits

\* the keyword w stands at position i inside a longer word of letters and
\* digits
Embedded(w, i) ==
    \/ i > 1 /\ input[i - 1] \in Alnum
    \/ i + Len(w) <= Len(input) /\ input[i + Len(w)] \in Alnum

\* the keyword w is in the input only inside longer words, if at all
OnlyEmbedded(w) ==
    \A i \in 1..Len(input) : HasAt(input, i, w) => Embedded(w, i)

\* the keywords of the rules, each with the findings its rules give
KeywordRules == {
    <<{<<"s", "u", "d", "o">>}, {"sudo", "sudo (read-only)"}>>,
    <<{<<"r", "m">>}, {"rm -rf", "rm (broad)"}>>,
    <<{<<"c", "h", "m", "o", "d">>}, {"chmod 777", "chmod -R"}>>,
    <<{<<"m", "k", "f", "s">>}, {"mkfs"}>>,
    <<{<<"f", "d", "i", "s", "k">>}, {"fdisk"}>>,
    <<{<<"d", "d">>}, {"dd"}>>,
    <<{<<"e", "v", "a", "l">>}, {"eval"}>>,
    <<{<<"g", "i", "t">>}, {"git reset --hard", "git clean -fd", "git push",
                 "git push --force", "git push --force-with-lease"}>>,
    <<{<<"n", "p", "m">>, <<"y", "a", "r", "n">>}, {"npm publish"}>>,
    <<{<<"t", "w", "i", "n", "e">>}, {"twine upload"}>>,
    <<{<<"g", "e", "m">>}, {"gem push"}>>,
    <<{<<"c", "a", "r", "g", "o">>}, {"cargo publish"}>>,
    <<{<<"c", "u", "r", "l">>, <<"w", "g", "e", "t">>}, {"curl | sh"}>> }

\* C30: whole-word matching.  For a permission not inside a container, a
\* rule does not fire when its keyword is in the string only inside longer
\* words of letters and digits; 'Bash(pseudocode generator)',
\* 'Bash(confirm)', 'Bash(sfdisk -l)' and 'Bash(pnpm publish)' have no
\* finding.
C30_WholeWord ==
    (Checked /\ ~inside) =>
        /\ \A kr \in KeywordRules :
               (\A w \in kr[1] : OnlyEmbedded(w))
                   => \A k \in DOMAIN issues : issues[k].name \notin kr[2]
        /\ input \in {<<"B", "a", "s", "h", "(", "p", "s", "e", "u", "d", "o", "c", "o", "d", "e", " ", "g", "e", "n", "e", "r", "a", "t", "o", "r", ")">>, <<"B", "a", "s", "h", "(", "c", "o", "n", "f", "i", "r", "m", ")">>,
                      <<"B", "a", "s", "h", "(", "c", "o", "n", "f", "i", "r", "m", " ", "-", "f", " ", "x", ")">>, <<"B", "a", "s", "h", "(", "s", "f", "d", "i", "s", "k", " ", "-", "l", ")">>,
                      <<"B", "a", "s", "h", "(", "p", "n", "p", "m", " ", "p", "u", "b", "l", "i", "s", "h", ")">>}
               => issues = <<>>

\* rm at the end of a longer word, before a force flag
C30_Witness ==
    /\ Checked
    /\ ~inside
    /\ input = <<"B", "a", "s", "h", "(", "c", "o", "n", "f", "i", "r", "m", " ", "-", "f", " ", "x", ")">>
    /\ \E i \in 1..Len(input) : HasAt(input, i, <<"r", "m">>) /\ Embedded(<<"r", "m">>, i)
    /\ issues = <<>>

=============================================================================
